---- MODULE Spec2Model ----
(***************************************************************************)
(* Model of the Gate/Hyperliquid arbitrage engine.                         *)
(*                                                                         *)
(*  - Spec    : GateOrderbookMonitor (snapshot + delta reconciliation) and *)
(*              HyperliquidOrderbookMonitor (snapshot push), driven by a   *)
(*              venue whose book changes one level per update id.          *)
(*  - SpecGate: the Gate monitor alone.                                    *)
(*  - SpecPM  : PositionManager (open_position, close_position,            *)
(*              monitor_positions) with the venue clients' order adapters. *)
(*  - SpecPMFair: SpecPM with the event loop's fairness.                   *)
(*  - SpecBot : Bot (run, _handle_min_spread_mode, local balances) driving *)
(*              the PositionManager.                                       *)
(*  - SpecLev : the clients' set_leverage with its cache.                  *)
(*  - SpecPx  : GatePriceMonitor (start, _ws_loop, _handle_message) and    *)
(*              HyperliquidPriceMonitor (_on_mids_update).                 *)
(*  - SpecMode: GateClient start-up (_refresh_contracts,                   *)
(*              _set_position_mode).                                       *)
(*  - SpecEm  : the emergency shutdown utility (close_all_positions with   *)
(*              its retried closes, run, main).                            *)
(*  - SpecStrat: ArbitrageStrategy (_execute_arbitrage, _close_position).  *)
(*  - SpecFill: the clients' estimate_fill_price.                          *)
(*  - SpecVol : the Bot's life (__aenter__, run, __aexit__) with its      *)
(*              volume refresh task.                                       *)
(*  - SpecGateFair, SpecBotFair: SpecGate and SpecBot with the awaits of   *)
(*              their tasks completing.                                    *)
(*                                                                         *)
(* Prices and sizes are small integers standing for Decimal values; the    *)
(* order-book monitors are modelled for one symbol (their state is keyed   *)
(* per symbol), the other components for the symbols of Symbols.           *)
(***************************************************************************)
EXTENDS Integers, Sequences, FiniteSets, Bags, TLC

\* ------------------------------------------------------------------ bounds
MaxPrice == 3
MaxSize == 1
MaxId == 3

Prices == 1..MaxPrice

\* --------------------------------------------------------- program constants
QueueMaxLen == 1000
SnapshotLimit == 100

VARIABLES
  \* venue (Gate): hist[i] is the venue's book after update id i
  hist,
  \* WS feed: next update id the connection will deliver
  wsNext,
  ackPending,
  \* GateOrderbookMonitor fields (one symbol)
  orderbooks,
  update_queues,
  base_ids,
  book_states,
  is_ready,
  \* task positions
  startPc,
  wsPc,
  startFetchLo,
  wsFetchLo,
  \* observation of the handler last run
  restCalls,
  last,
  lastApplied,
  \* HyperliquidOrderbookMonitor
  hlOrderbooks,
  hl_is_ready,
  \* PositionManager fields
  positions,
  check_event,
  running,
  on_position_closed,
  \* uuid4 source
  nextId,
  \* open_position in flight
  openPc,
  openCall,
  \* monitor_positions task
  monPc,
  positions_to_close,
  closeCall,
  \* the price monitors' price maps (prices: symbol -> last price)
  gate_price,
  hl_price,
  \* observation: orders submitted to the venues, returns of open_position,
  \* completed close_position calls, completion callback invocations
  orders,
  openLog,
  closeLog,
  \* observation: a close with a failed leg has happened
  close_failed,
  \* observation: stop_monitor was called since the monitor task was created
  stop_called,
  callbackLog,
  \* Bot fields: balances, open semaphore, main loop and per-symbol handlers
  gate_balance,
  hyperliquid_balance,
  _position_semaphore,
  botPc,
  handlerPc,
  \* GateClient / HyperliquidClient leverage cache, set_leverage calls at the
  \* venue, and observation: calls made, venue requests sent, the last call
  \* of each venue and symbol that reached the venue
  _leverage_cache,
  levInFlight,
  levCalls,
  levRequests,
  levLast,
  \* observation: per venue and symbol the last update the venue accepted
  levLastOk,
  \* GatePriceMonitor: ready latch, start() and _ws_loop positions, reconnect
  \* delay; HyperliquidPriceMonitor: ready latch
  gate_px_is_ready,
  pxStartPc,
  pxWsPc,
  _reconnect_delay,
  hl_px_is_ready,
  \* observation: the sleep in progress and the exception that led to it,
  \* failures since the last successful connection, the message handled last
  pxSleep,
  pxFailures,
  pxLast,
  \* GateClient startup: configured dual_mode, position of __aenter__, what
  \* the venue returned (account, positions), the venue's position mode and
  \* the mode-change requests sent
  dual_mode,
  startupPc,
  account,
  venue_positions,
  venue_dual,
  dualModeRequests,
  \* emergency utility: position of main(), the positions live at the venues,
  \* the listed positions, all_closed, attempts made per position,
  \* failed_closes, the process exit code
  emPc,
  emLive,
  emListed,
  all_closed,
  emAttempts,
  failed_closes,
  exitCode,
  \* observation: positions whose close returned success, stages that raised
  emClosedOk,
  emErrors,
  \* ArbitrageStrategy: active_positions (id -> status), closed_positions,
  \* risk_manager.emergency_stop, position of the task, next position id,
  \* the close in flight, and observation: the close that returned last
  active_positions,
  closed_positions,
  emergency_stop,
  stratPc,
  stratNext,
  stratClosing,
  stratLast,
  \* estimate_fill_price: the call made last and what it gave
  fillCall,
  fillResult,
  \* Bot volume refresh: the Bot's life ("none", "init", "entered",
  \* "running", "exited"), Bot._running, mode.min_24h_volume_usd, the
  \* filtered symbols, _volume_cache, the _volume_updater task ("none",
  \* "created", "sleep", "fetch", "done"), the minutes its sleep has left and
  \* the refreshes it made
  volBotPc,
  bot_running,
  min_24h_volume_usd,
  vol_symbols,
  _volume_cache,
  volTask,
  volSleep,
  volRefreshes

bookVars == <<hist, wsNext, ackPending, orderbooks, update_queues, base_ids,
              book_states, is_ready, startPc, wsPc, startFetchLo, wsFetchLo,
              restCalls, last, lastApplied, hlOrderbooks, hl_is_ready>>

pmVars == <<positions, check_event, running, on_position_closed, nextId,
            openPc, openCall, monPc, positions_to_close, closeCall,
            gate_price, hl_price, orders, openLog, closeLog, close_failed, stop_called, callbackLog>>

botVars == <<gate_balance, hyperliquid_balance, _position_semaphore, botPc,
             handlerPc>>

levVars == <<_leverage_cache, levInFlight, levCalls, levRequests, levLast,
            levLastOk>>

pxVars == <<gate_px_is_ready, pxStartPc, pxWsPc, _reconnect_delay,
            hl_px_is_ready, pxSleep, pxFailures, pxLast>>

modeVars == <<dual_mode, startupPc, account, venue_positions, venue_dual,
              dualModeRequests>>

emVars == <<emPc, emLive, emListed, all_closed, emAttempts, failed_closes,
            exitCode, emClosedOk, emErrors>>

stratVars == <<active_positions, closed_positions, emergency_stop, stratPc,
               stratNext, stratClosing, stratLast>>

fillVars == <<fillCall, fillResult>>

volVars == <<volBotPc, bot_running, min_24h_volume_usd, vol_symbols,
             _volume_cache, volTask, volSleep, volRefreshes>>

otherVars == <<modeVars, emVars, stratVars, fillVars, volVars>>

\* what the actions of one component leave alone
clientVars == <<levVars, pxVars, otherVars>>

notBookVars == <<pmVars, botVars, clientVars>>

notPmVars == <<bookVars, botVars, clientVars>>

notBotVars == <<bookVars, clientVars>>

notLevVars == <<bookVars, pmVars, botVars, pxVars, otherVars>>

notModeVars == <<bookVars, pmVars, botVars, levVars, pxVars, emVars,
                 stratVars, fillVars, volVars>>

notEmVars == <<bookVars, pmVars, botVars, levVars, pxVars, modeVars,
               stratVars, fillVars, volVars>>

notStratVars == <<bookVars, pmVars, botVars, levVars, pxVars, modeVars,
                  emVars, fillVars, volVars>>

notFillVars == <<bookVars, pmVars, botVars, levVars, pxVars, modeVars,
                 emVars, stratVars, volVars>>

notVolVars == <<bookVars, pmVars, botVars, levVars, pxVars, modeVars,
                emVars, stratVars, fillVars>>

\* the price monitors write the price maps and nothing else of pmVars
notPxVars == <<bookVars, botVars, levVars, otherVars, positions, check_event, running,
               on_position_closed, nextId, openPc, openCall, monPc,
               positions_to_close, closeCall, orders, openLog, closeLog, close_failed, stop_called,
               callbackLog>>

vars == <<bookVars, pmVars, botVars, clientVars>>

\* ------------------------------------------------------------ venue's book
\* A venue book maps every price to the resting size on each side (0: none).
EmptySide == [p \in Prices |-> 0]

Uncrossed(b, a) ==
  \A p \in DOMAIN b, q \in DOMAIN a : (b[p] > 0 /\ a[q] > 0) => p < q

InitialVenueBook == [b |-> [p \in Prices |-> IF p = 1 THEN 1 ELSE 0],
                     a |-> [p \in Prices |-> IF p = MaxPrice THEN 1 ELSE 0]]

Max(x, y) == IF x >= y THEN x ELSE y
Min(x, y) == IF x <= y THEN x ELSE y

\* Levels of one side as the venue lists them (ascending or descending price).
RECURSIVE LevelsAsc(_, _)
LevelsAsc(side, p) ==
  IF p \notin DOMAIN side THEN <<>>
  ELSE (IF side[p] > 0 THEN <<[price |-> p, size |-> side[p]]>> ELSE <<>>)
       \o LevelsAsc(side, p + 1)

RECURSIVE LevelsDesc(_, _)
LevelsDesc(side, p) ==
  IF p \notin DOMAIN side THEN <<>>
  ELSE (IF side[p] > 0 THEN <<[price |-> p, size |-> side[p]]>> ELSE <<>>)
       \o LevelsDesc(side, p - 1)

Take(s, n) == SubSeq(s, 1, Min(Len(s), n))

\* REST list_futures_order_book(limit=100, with_id=True) at update id i.
VenueSnapshot(i) ==
  [id |-> i,
   bids |-> Take(LevelsDesc(hist[i].b, MaxPrice), SnapshotLimit),
   asks |-> Take(LevelsAsc(hist[i].a, 1), SnapshotLimit)]

\* Prices of one side touched by the updates U..u.
Touched(U, u, sd) ==
  {p \in Prices : \E k \in U..u : k >= 2 /\ k <= Len(hist)
                                  /\ hist[k][sd][p] # hist[k - 1][sd][p]}

RECURSIVE DeltaEntries(_, _, _)
DeltaEntries(touched, side, p) ==
  IF p > MaxPrice THEN <<>>
  ELSE (IF p \in touched THEN <<[p |-> p, s |-> side[p]]>> ELSE <<>>)
       \o DeltaEntries(touched, side, p + 1)

\* futures.order_book_update frame covering update ids U..u: every touched
\* price with its size as of u (0 when the level is gone).
VenueDelta(U, u) ==
  [U |-> U, u |-> u,
   b |-> DeltaEntries(Touched(U, u, "b"), hist[u].b, 1),
   a |-> DeltaEntries(Touched(U, u, "a"), hist[u].a, 1)]

\* ------------------------------------------------------- python containers
\* dict keyed by price, kept as the sequence of its values in insertion order.
DictHas(d, p) == \E i \in 1..Len(d) : d[i].price = p

DictSet(d, lv) ==
  IF DictHas(d, lv.price)
  THEN [i \in 1..Len(d) |-> IF d[i].price = lv.price THEN lv ELSE d[i]]
  ELSE Append(d, lv)

DictPop(d, p) == SelectSeq(d, LAMBDA x : x.price # p)

RECURSIVE DictFromLevels(_, _)
DictFromLevels(d, levels) ==
  IF levels = <<>> THEN d
  ELSE DictFromLevels(DictSet(d, Head(levels)), Tail(levels))

\* sorted(values, key=price): stable insertion sort, ascending.
RECURSIVE InsertAsc(_, _)
InsertAsc(s, lv) ==
  IF s = <<>> THEN <<lv>>
  ELSE IF Head(s).price <= lv.price THEN <<Head(s)>> \o InsertAsc(Tail(s), lv)
       ELSE <<lv>> \o s

RECURSIVE SortedAsc(_)
SortedAsc(s) ==
  IF s = <<>> THEN <<>>
  ELSE InsertAsc(SortedAsc(SubSeq(s, 1, Len(s) - 1)), s[Len(s)])

\* sorted(values, key=price, reverse=True)
RECURSIVE InsertDesc(_, _)
InsertDesc(s, lv) ==
  IF s = <<>> THEN <<lv>>
  ELSE IF Head(s).price >= lv.price THEN <<Head(s)>> \o InsertDesc(Tail(s), lv)
       ELSE <<lv>> \o s

RECURSIVE SortedDesc(_)
SortedDesc(s) ==
  IF s = <<>> THEN <<>>
  ELSE InsertDesc(SortedDesc(SubSeq(s, 1, Len(s) - 1)), s[Len(s)])

\* deque(maxlen=1000).append
DequeAppendLeft(q, x) ==
  IF Len(q) >= QueueMaxLen THEN <<x>> \o SubSeq(q, 1, Len(q) - 1)
  ELSE <<x>> \o q

DequeAppend(q, x) ==
  IF Len(q) >= QueueMaxLen THEN Append(Tail(q), x) ELSE Append(q, x)

\* ------------------------------------------ GateOrderbookMonitor._apply_update
\* for entry in update side: size == 0 pops the price, otherwise upserts it.
RECURSIVE ApplyNoPop(_, _)
ApplyNoPop(d, entries) ==
  IF entries = <<>> THEN d
  ELSE ApplyNoPop(DictSet(d, [price |-> Head(entries).p, size |-> Head(entries).s]),
                  Tail(entries))

RECURSIVE ApplyEntries(_, _)
ApplyEntries(d, entries) ==
  IF entries = <<>> THEN d
  ELSE LET e == Head(entries)
           d2 == IF e.s = 0 THEN DictPop(d, e.p)
                 ELSE DictSet(d, [price |-> e.p, size |-> e.s])
       IN ApplyEntries(d2, Tail(entries))

SortBidsUnsorted(d) == d

SortBids(d) == SortedDesc(d)

SortAsks(d) == SortedAsc(d)

\* `books` is the _orderbooks entry of the symbol: <<>> when the symbol has
\* no book, <<book>> otherwise.
_apply_update(books, update) ==
  IF books = <<>> THEN books
  ELSE LET book == books[1]
           bids_dict == ApplyEntries(DictFromLevels(<<>>, book.bids), update.b)
           asks_dict == ApplyEntries(DictFromLevels(<<>>, book.asks), update.a)
       IN <<[bids |-> SortBids(bids_dict), asks |-> SortAsks(asks_dict)]>>

\* ----------------------------------- GateOrderbookMonitor._fetch_snapshot
\* Drain loop over the buffered updates after a snapshot was installed.
\* Returns the book, the base id and the last update it applied.
RECURSIVE DrainQueueNoSkip(_, _, _, _)
DrainQueueNoSkip(books, base, queue, applied) ==
  IF queue = <<>> THEN [books |-> books, base |-> base, applied |-> applied]
  ELSE LET update == Head(queue) IN
       DrainQueueNoSkip(_apply_update(books, update), update.u, Tail(queue),
                        Append(applied, update))

RECURSIVE DrainQueue(_, _, _, _)
DrainQueue(books, base, queue, applied) ==
  IF queue = <<>> THEN [books |-> books, base |-> base, applied |-> applied]
  ELSE LET update == Head(queue) IN
       IF update.u < base + 1
       THEN DrainQueue(books, base, Tail(queue), applied)
       ELSE IF update.U <= base + 1 /\ update.u >= base + 1
            THEN DrainQueue(_apply_update(books, update), update.u, Tail(queue),
                            Append(applied, update))
            ELSE [books |-> books, base |-> base, applied |-> applied]

\* Result of the try body of _fetch_snapshot for a snapshot taken at id i:
\* install the book and base id, drain the buffered updates, drop the queue.
FetchInstall(i) ==
  LET snapshot == VenueSnapshot(i)
      installed == <<[bids |-> snapshot.bids, asks |-> snapshot.asks]>>
      drained == IF update_queues = <<>>
                 THEN [books |-> installed, base |-> snapshot.id, applied |-> <<>>]
                 ELSE DrainQueue(installed, snapshot.id, update_queues[1], <<>>)
  IN drained

NoMsg == [U |-> 0, u |-> 0, b |-> <<>>, a |-> <<>>]

NoLast == [kind |-> "none", msg |-> NoMsg, preState |-> "none", preBase |-> <<>>,
           preBook |-> <<>>, preRest |-> 0, applied |-> 0, done |-> TRUE]

LastOf(seq) == IF seq = <<>> THEN <<>> ELSE <<seq[Len(seq)]>>

\* ---------------------------------------------------- initial monitor state
InitBook ==
  /\ hist = <<InitialVenueBook>>
  /\ wsNext = 2
  /\ ackPending = FALSE
  /\ orderbooks = <<>>
  /\ update_queues = <<>>
  /\ base_ids = <<>>
  /\ book_states = "unset"
  /\ is_ready = FALSE
  /\ startPc = "init"
  /\ wsPc = "none"
  /\ startFetchLo = 0
  /\ wsFetchLo = 0
  /\ restCalls = 0
  /\ last = NoLast
  /\ lastApplied = <<>>
  /\ hlOrderbooks = <<>>
  /\ hl_is_ready = FALSE

\* ------------------------------------------------------------------- venue
\* One update id changes the size of one price level on one side and keeps
\* the venue's book uncrossed.
VenueUpdate ==
  /\ Len(hist) < MaxId
  /\ \E sd \in {"b", "a"}, p \in Prices, s \in 0..MaxSize :
       LET cur == hist[Len(hist)]
           nxt == [cur EXCEPT ![sd][p] = s]
       IN /\ cur[sd][p] # s
          /\ Uncrossed(nxt.b, nxt.a)
          /\ hist' = Append(hist, nxt)
  /\ UNCHANGED <<wsNext, ackPending, orderbooks, update_queues, base_ids,
                 book_states, is_ready, startPc, wsPc, startFetchLo, wsFetchLo,
                 restCalls, last, lastApplied, hlOrderbooks, hl_is_ready>>
  /\ UNCHANGED notBookVars

\* -------------------------------------------- GateOrderbookMonitor.start
\* start(): mark the symbol WAITING_SNAPSHOT, create the WS task, wait for
\* the subscribe acknowledgement.
Start ==
  /\ startPc = "init"
  /\ book_states' = "waiting"
  /\ wsPc' = "connecting"
  /\ startPc' = "wait_ready"
  /\ UNCHANGED <<hist, wsNext, ackPending, orderbooks, update_queues, base_ids,
                 is_ready, startFetchLo, wsFetchLo, restCalls, last,
                 lastApplied, hlOrderbooks, hl_is_ready>>
  /\ UNCHANGED notBookVars

\* wait_for(_ready.wait(), 30) expired: start() raises WebSocketError.
StartTimeout ==
  /\ startPc = "wait_ready"
  /\ ~is_ready
  /\ startPc' = "failed"
  /\ UNCHANGED <<hist, wsNext, ackPending, orderbooks, update_queues, base_ids,
                 book_states, is_ready, wsPc, startFetchLo, wsFetchLo,
                 restCalls, last, lastApplied, hlOrderbooks, hl_is_ready>>
  /\ UNCHANGED notBookVars

\* start() after the latch: _fetch_snapshot issues its REST request.
StartFetchRequest ==
  /\ startPc = "wait_ready"
  /\ is_ready
  /\ startPc' = "fetching"
  /\ startFetchLo' = Len(hist)
  /\ restCalls' = restCalls + 1
  /\ UNCHANGED <<hist, wsNext, ackPending, orderbooks, update_queues, base_ids,
                 book_states, is_ready, wsPc, wsFetchLo, last, lastApplied,
                 hlOrderbooks, hl_is_ready>>
  /\ UNCHANGED notBookVars

\* The REST call of start()'s _fetch_snapshot returns a snapshot taken at some
\* id between request and response.
StartFetchOk ==
  /\ startPc = "fetching"
  /\ \E i \in startFetchLo..Len(hist) :
       LET r == FetchInstall(i) IN
       /\ orderbooks' = r.books
       /\ base_ids' = <<r.base>>
       /\ lastApplied' = LastOf(r.applied)
  /\ update_queues' = <<>>
  /\ book_states' = "ready"
  /\ startPc' = "done"
  /\ last' = NoLast
  /\ UNCHANGED <<hist, wsNext, ackPending, is_ready, wsPc, startFetchLo,
                 wsFetchLo, restCalls, hlOrderbooks, hl_is_ready>>
  /\ UNCHANGED notBookVars

\* The REST call raised: except branch of _fetch_snapshot.
StartFetchFail ==
  /\ startPc = "fetching"
  /\ book_states' = "waiting"
  /\ startPc' = "done"
  /\ last' = NoLast
  /\ UNCHANGED <<hist, wsNext, ackPending, orderbooks, update_queues, base_ids,
                 is_ready, wsPc, startFetchLo, wsFetchLo, restCalls,
                 lastApplied, hlOrderbooks, hl_is_ready>>
  /\ UNCHANGED notBookVars

\* ------------------------------------------ GateOrderbookMonitor._ws_loop
\* websockets.connect succeeded: subscribe frame sent. The feed resumes at
\* the venue's current position or later; frames sent while the connection
\* was down are never delivered.
WSConnect ==
  /\ wsPc = "connecting"
  /\ wsPc' = "open"
  /\ ackPending' = TRUE
  /\ \E n \in wsNext..(Len(hist) + 1) : wsNext' = n
  /\ UNCHANGED <<hist, orderbooks, update_queues, base_ids, book_states,
                 is_ready, startPc, startFetchLo, wsFetchLo, restCalls, last,
                 lastApplied, hlOrderbooks, hl_is_ready>>
  /\ UNCHANGED notBookVars

\* The connection drops while the loop is reading: except branch, sleep,
\* next iteration of the while loop.
WSDisconnect ==
  /\ wsPc = "open"
  /\ wsPc' = "connecting"
  /\ ackPending' = FALSE
  /\ UNCHANGED <<hist, wsNext, orderbooks, update_queues, base_ids,
                 book_states, is_ready, startPc, startFetchLo, wsFetchLo,
                 restCalls, last, lastApplied, hlOrderbooks, hl_is_ready>>
  /\ UNCHANGED notBookVars

\* ------------------------------------ GateOrderbookMonitor._handle_message
\* event == 'subscribe'
HandleSubscribe ==
  /\ wsPc = "open"
  /\ ackPending
  /\ ackPending' = FALSE
  /\ is_ready' = TRUE
  /\ UNCHANGED <<hist, wsNext, orderbooks, update_queues, base_ids,
                 book_states, startPc, wsPc, startFetchLo, wsFetchLo,
                 restCalls, last, lastApplied, hlOrderbooks, hl_is_ready>>
  /\ UNCHANGED notBookVars

GapTestOffByOne(update_id_first, base_id) == update_id_first > base_id + 2

GapTestNever(update_id_first, base_id) == FALSE

GapTest(update_id_first, base_id) == update_id_first > base_id + 1

StaleTestInclusive(update_id_last, base_id) == update_id_last <= base_id + 1

StaleTestNever(update_id_last, base_id) == FALSE

StaleTest(update_id_last, base_id) == update_id_last < base_id + 1

\* event == 'update' carrying the frame for update ids wsNext..u
HandleUpdate ==
  /\ wsPc = "open"
  /\ \E u \in wsNext..Len(hist) :
       LET result == VenueDelta(wsNext, u)
           state == IF book_states = "unset" THEN "waiting" ELSE book_states
           seen == [kind |-> "update", msg |-> result, preState |-> state,
                    preBase |-> base_ids, preBook |-> orderbooks,
                    preRest |-> restCalls, applied |-> 0, done |-> TRUE]
       IN
       /\ wsNext' = u + 1
       /\ IF state = "waiting"
          THEN /\ update_queues' =
                    <<DequeAppend(IF update_queues = <<>> THEN <<>>
                                  ELSE update_queues[1], result)>>
               /\ last' = seen
               /\ UNCHANGED <<orderbooks, base_ids, book_states, wsPc,
                              wsFetchLo, restCalls, lastApplied>>
          ELSE IF base_ids = <<>>
          THEN /\ last' = seen
               /\ UNCHANGED <<orderbooks, update_queues, base_ids, book_states,
                              wsPc, wsFetchLo, restCalls, lastApplied>>
          ELSE IF GapTest(result.U, base_ids[1])
          THEN \* _resync_orderbook: SYNCING, then the REST request
               /\ book_states' = "syncing"
               /\ wsPc' = "resync"
               /\ wsFetchLo' = Len(hist)
               /\ restCalls' = restCalls + 1
               /\ last' = [seen EXCEPT !.done = FALSE]
               /\ UNCHANGED <<orderbooks, update_queues, base_ids, lastApplied>>
          ELSE IF StaleTest(result.u, base_ids[1])
          THEN /\ last' = seen
               /\ UNCHANGED <<orderbooks, update_queues, base_ids, book_states,
                              wsPc, wsFetchLo, restCalls, lastApplied>>
          ELSE /\ orderbooks' = _apply_update(orderbooks, result)
               /\ base_ids' = <<result.u>>
               /\ book_states' = "ready"
               /\ last' = [seen EXCEPT !.applied = 1]
               /\ lastApplied' = IF orderbooks = <<>> THEN lastApplied
                                 ELSE <<result>>
               /\ UNCHANGED <<update_queues, wsPc, wsFetchLo, restCalls>>
  /\ UNCHANGED <<hist, ackPending, is_ready, startPc, startFetchLo,
                 hlOrderbooks, hl_is_ready>>
  /\ UNCHANGED notBookVars

\* The REST call of the resync's _fetch_snapshot returns; _handle_message
\* returns to the read loop.
ResyncOk ==
  /\ wsPc = "resync"
  /\ \E i \in wsFetchLo..Len(hist) :
       LET r == FetchInstall(i) IN
       /\ orderbooks' = r.books
       /\ base_ids' = <<r.base>>
       /\ lastApplied' = LastOf(r.applied)
       /\ last' = [last EXCEPT !.done = TRUE,
                               !.applied = last.applied + Len(r.applied)]
  /\ update_queues' = <<>>
  /\ book_states' = "ready"
  /\ wsPc' = "open"
  /\ UNCHANGED <<hist, wsNext, ackPending, is_ready, startPc, startFetchLo,
                 wsFetchLo, restCalls, hlOrderbooks, hl_is_ready>>
  /\ UNCHANGED notBookVars

ResyncFail ==
  /\ wsPc = "resync"
  /\ book_states' = "waiting"
  /\ wsPc' = "open"
  /\ last' = [last EXCEPT !.done = TRUE]
  /\ UNCHANGED <<hist, wsNext, ackPending, orderbooks, update_queues, base_ids,
                 is_ready, startPc, startFetchLo, wsFetchLo, restCalls,
                 lastApplied, hlOrderbooks, hl_is_ready>>
  /\ UNCHANGED notBookVars

\* ------------------------------------ GateOrderbookMonitor.get_orderbook
\* what a reader of the local book is given, whatever the symbol's state:
\* <<>> for None, <<book>> otherwise
get_orderbook == orderbooks

\* ---------------------------- HyperliquidOrderbookMonitor._on_book_update
\* An l2Book frame carries the venue's top-of-book levels, bids first; the
\* monitor replaces its book with them. Both venues quote the same market:
\* the frame holds one of the books the market has gone through.
HLBookUpdate ==
  /\ \E k \in 1..Len(hist) :
       hlOrderbooks' = <<[bids |-> LevelsDesc(hist[k].b, MaxPrice),
                         asks |-> LevelsAsc(hist[k].a, 1)]>>
  /\ hl_is_ready' = TRUE
  /\ UNCHANGED <<hist, wsNext, ackPending, orderbooks, update_queues, base_ids,
                 book_states, is_ready, startPc, wsPc, startFetchLo, wsFetchLo,
                 restCalls, last, lastApplied>>
  /\ UNCHANGED notBookVars

\* ======================================================== PositionManager
\* bounds of the position model
MaxPositions == 1
MaxOrderSize == 1
MaxTime == 1

\* time.time(), in minutes: the clock is read relative to the present, so a
\* minute passing moves every stored open_time one minute into the past
\* (ages beyond MaxTime minutes are not told apart)
Now == 0

\* symbols common to both venues (Bot.symbols); the callers of SpecPM trade
\* one of them
Symbols == {"BTC", "ETH"}

EnvSymbols == {"BTC"}

\* prices the Hyperliquid price monitor publishes to the position manager
PriceValues == {100, 101, 103}

\* the Gate price monitor's feed is held at one price; the spread moves with
\* the Hyperliquid price
GatePriceValues == {100}

\* MinSpread mode held by every position, in hundredths of a percent
\* (minutes for the timeout)
Mode == [percentage |-> 120, usd_size_per_pos |-> MaxOrderSize,
         target_spread_pct |-> 20, stop_loss_pct |-> 100, timeout_minutes |-> 1]

EntrySpreads == {120}

\* size asked of open_position; a Hyperliquid fill may report less (totalSz)
OrderSizes == {MaxOrderSize}

NoOrder == [side |-> "none", size |-> 0, status |-> "none"]

NoResult == [exc |-> TRUE, order |-> NoOrder]

NoCall == [position_id |-> 0, symbol |-> "none", direction |-> "none",
           size |-> 0, entry_spread_pct |-> 0, gate |-> NoResult,
           hl |-> NoResult]

Abs(x) == IF x < 0 THEN -x ELSE x

\* ------------------------------------------------ gate/adapters.adapt_order
GateStatusMap(status) ==
  IF status = "finished" THEN "filled"
  ELSE IF status = "open" THEN "partial"
  ELSE "filled"

GateAdaptOrder(raw) ==
  [size |-> Abs(raw.size),
   side |-> IF raw.size > 0 THEN "long" ELSE "short",
   status |-> GateStatusMap(raw.status)]

\* GateClient.buy_market / sell_market: the signed contract size sent
GateOrderSize(op, size) == IF op = "buy" THEN size ELSE -Abs(size)

GateOutcomes == {"exc", "finished", "open"}

\* create_futures_order answers with the order as submitted and its status,
\* or raises
GateMarket(op, size, outcome) ==
  IF outcome = "exc" THEN NoResult
  ELSE [exc |-> FALSE,
        order |-> GateAdaptOrder([size |-> GateOrderSize(op, size),
                                  status |-> outcome])]

\* ----------------------------------------- hyperliquid/adapters.adapt_order
HLAdaptOrder(raw, size, side) ==
  IF raw.status # "ok"
  THEN [exc |-> FALSE, order |-> [size |-> size, side |-> side, status |-> "rejected"]]
  ELSE IF raw.type # "order"
  THEN [exc |-> FALSE, order |-> [size |-> size, side |-> side, status |-> "rejected"]]
  ELSE IF raw.statuses = <<>>
  THEN [exc |-> FALSE, order |-> [size |-> size, side |-> side, status |-> "rejected"]]
  ELSE IF raw.statuses[1].filled = <<>>
  THEN [exc |-> FALSE, order |-> [size |-> size, side |-> side, status |-> "partial"]]
  ELSE [exc |-> FALSE,
        order |-> [size |-> raw.statuses[1].filled[1].totalSz, side |-> side,
                   status |-> "filled"]]

HLOutcomes == {"exc", "err", "notorder", "nostatuses", "notfilled", "filled"}

\* what exchange.market_open answers
HLRaw(outcome, totalSz) ==
  [status |-> IF outcome = "err" THEN "err" ELSE "ok",
   type |-> IF outcome = "notorder" THEN "default" ELSE "order",
   statuses |-> IF outcome = "nostatuses" THEN <<>>
                ELSE IF outcome = "notfilled" THEN <<[filled |-> <<>>]>>
                ELSE <<[filled |-> <<[totalSz |-> totalSz]>>]>>]

\* HyperliquidClient.buy_market / sell_market
HLMarket(op, size, outcome, totalSz) ==
  IF outcome = "exc" THEN NoResult
  ELSE HLAdaptOrder(HLRaw(outcome, totalSz), size,
                    IF op = "buy" THEN "long" ELSE "short")

Submitted(venue, op, size, pid) ==
  [venue |-> venue, op |-> op, size |-> size, pid |-> pid]

\* The observation logs (orders, openLog, closeLog, callbackLog) are kept
\* while the PositionManager is driven directly; a Bot run keeps no history.
Observed == botPc = "none"

Sent(submitted) == IF Observed THEN orders (+) SetToBag(submitted) ELSE orders

Returned(log, r) == IF Observed THEN log \cup {r} ELSE log

\* ------------------------------------------------ PositionManager.__init__
\* the caller passes a completion callback or leaves the default None
PositionManager__init__ ==
  /\ openPc = "new"
  /\ openPc' = "idle"
  /\ on_position_closed' \in BOOLEAN
  /\ UNCHANGED <<positions, check_event, running, nextId, openCall, monPc,
                 positions_to_close, closeCall, gate_price, hl_price,
                 orders, openLog, closeLog, close_failed, stop_called, callbackLog>>
  /\ UNCHANGED notPmVars

\* ------------------------------------------- PositionManager.open_position
\* first half: fresh id, both leg orders launched, await gather
GateOpenOp(direction) == IF direction = "GATE_SHORT" THEN "sell" ELSE "buy"

HLOpenOp(direction) == IF direction = "GATE_SHORT" THEN "buy" ELSE "sell"

OpenCall(symbol, direction, size, entry) ==
  /\ openCall' = [NoCall EXCEPT !.position_id = nextId,
                                !.symbol = symbol,
                                !.direction = direction,
                                !.size = size,
                                !.entry_spread_pct = entry]
  /\ orders' = Sent({Submitted("gate", GateOpenOp(direction), size, nextId),
                 Submitted("hl", HLOpenOp(direction), size, nextId)})
  /\ nextId' = nextId + 1
  /\ openPc' = "legs"
  /\ UNCHANGED <<positions, check_event, running, on_position_closed, monPc,
                 positions_to_close, closeCall, gate_price, hl_price,
                 openLog, closeLog, close_failed, stop_called, callbackLog>>

\* a caller other than the Bot opens a position
open_position ==
  /\ openPc = "idle"
  /\ nextId <= MaxPositions
  /\ \E symbol \in EnvSymbols, direction \in {"GATE_SHORT", "HL_SHORT"},
        size \in OrderSizes, entry \in EntrySpreads :
       OpenCall(symbol, direction, size, entry)
  /\ UNCHANGED notPmVars

\* _close_single_position: the reversing order for a filled leg
CompensationOp(order) == IF order.side = "long" THEN "sell" ELSE "buy"

\* which legs open_position treats as failed
LegFailed(result) == result.exc

OpenReturn(call, gate_result, hl_result, ret) ==
  [position_id |-> call.position_id, gate |-> gate_result, hl |-> hl_result,
   ret |-> ret]

\* second half: gather returned both results
OpenLegsStep ==
  /\ openPc = "legs"
  /\ \E go \in GateOutcomes, ho \in HLOutcomes, totalSz \in 1..MaxOrderSize :
       LET gate_result == GateMarket(GateOpenOp(openCall.direction),
                                     openCall.size, go)
           hl_result == HLMarket(HLOpenOp(openCall.direction), openCall.size,
                                 ho, totalSz)
           gate_failed == LegFailed(gate_result)
           hl_failed == LegFailed(hl_result)
           error_occurred == gate_failed \/ hl_failed
       IN
       /\ totalSz <= openCall.size
       /\ (ho # "filled" => totalSz = openCall.size)
       /\ IF error_occurred
          THEN IF ~gate_failed /\ hl_failed
               THEN /\ orders' = Sent({
                         Submitted("gate", CompensationOp(gate_result.order),
                                   gate_result.order.size, openCall.position_id)})
                    /\ openPc' = "comp"
                    /\ openCall' = [openCall EXCEPT !.gate = gate_result,
                                                    !.hl = hl_result]
                    /\ UNCHANGED openLog
               ELSE IF ~hl_failed /\ gate_failed
               THEN /\ orders' = Sent({
                         Submitted("hl", CompensationOp(hl_result.order),
                                   hl_result.order.size, openCall.position_id)})
                    /\ openPc' = "comp"
                    /\ openCall' = [openCall EXCEPT !.gate = gate_result,
                                                    !.hl = hl_result]
                    /\ UNCHANGED openLog
               ELSE /\ openPc' = "idle"
                    /\ openCall' = NoCall
                    /\ openLog' = Returned(openLog,
                         OpenReturn(openCall, gate_result, hl_result, "None"))
                    /\ UNCHANGED orders
          ELSE /\ openPc' = "idle"
               /\ openCall' = NoCall
               /\ openLog' = Returned(openLog,
                    OpenReturn(openCall, gate_result, hl_result, "position"))
               /\ UNCHANGED orders
       /\ IF error_occurred
          THEN UNCHANGED <<positions, check_event>>
          ELSE /\ positions' = Append(positions,
                    [position_id |-> openCall.position_id,
                     symbol |-> openCall.symbol,
                     gate_order |-> gate_result.order,
                     hl_order |-> hl_result.order,
                     direction |-> openCall.direction,
                     entry_spread_pct |-> openCall.entry_spread_pct,
                     open_time |-> Now,
                     mode |-> Mode])
               /\ check_event' = TRUE
  /\ UNCHANGED <<running, on_position_closed, nextId, monPc,
                 positions_to_close, closeCall, gate_price, hl_price,
                 closeLog, close_failed, stop_called, callbackLog>>

OpenLegsDone == OpenLegsStep /\ UNCHANGED notPmVars

\* the compensating order returned or raised (the error is only logged);
\* open_position returns None
OpenCompStep ==
  /\ openPc = "comp"
  /\ openPc' = "idle"
  /\ openCall' = NoCall
  /\ openLog' = Returned(openLog, OpenReturn(openCall, openCall.gate,
                                             openCall.hl, "None"))
  /\ UNCHANGED <<positions, check_event, running, on_position_closed, nextId,
                 monPc, positions_to_close, closeCall, gate_price, hl_price,
                 orders, closeLog, close_failed, stop_called, callbackLog>>

OpenCompDone == OpenCompStep /\ UNCHANGED notPmVars

\* ------------------------------------------------ price monitors' price map
\* prices: dict[str, float]; a map with no entry at all is NoPrices
NoPrices == [s \in {} |-> 0]

\* get_price: self.prices.get(symbol), None when there is no entry
get_price(prices, symbol) ==
  IF symbol \in DOMAIN prices THEN <<prices[symbol]>> ELSE <<>>

\* has_price: symbol in self.prices
has_price(prices, symbol) == symbol \in DOMAIN prices

\* self.prices[symbol] = price
SetPrice(prices, symbol, price) ==
  [k \in DOMAIN prices \cup {symbol} |->
     IF k = symbol THEN price ELSE prices[k]]

\* "not price": None and 0.0 are both falsy
NotPrice(price) == price = <<>> \/ price[1] = 0

\* ------------------------------------ PositionManager._get_current_spread
\* spread_pct = |gate - hl| / ((gate + hl) / 2) * 100, compared with x given
\* in hundredths of a percent
SpreadLE(g, h, x) == 20000 * Abs(g - h) <= x * (g + h)

SpreadGE(g, h, x) == 20000 * Abs(g - h) >= x * (g + h)

\* ---------------------------------- PositionManager._check_close_conditions
CheckCloseTimeoutStrict(position) ==
  LET g == get_price(gate_price, position.symbol)
      h == get_price(hl_price, position.symbol)
  IN
  IF NotPrice(g) \/ NotPrice(h) THEN ""
  ELSE IF SpreadLE(g[1], h[1], position.mode.target_spread_pct)
  THEN "TP"
  ELSE IF SpreadGE(g[1], h[1],
                   position.entry_spread_pct + position.mode.stop_loss_pct)
  THEN "SL"
  ELSE IF Now - position.open_time > position.mode.timeout_minutes
  THEN "Timeout"
  ELSE ""

CheckCloseTimeoutFirst(position) ==
  LET g == get_price(gate_price, position.symbol)
      h == get_price(hl_price, position.symbol)
  IN
  IF NotPrice(g) \/ NotPrice(h) THEN ""
  ELSE IF Now - position.open_time >= position.mode.timeout_minutes
  THEN "Timeout"
  ELSE IF SpreadLE(g[1], h[1], position.mode.target_spread_pct)
  THEN "TP"
  ELSE IF SpreadGE(g[1], h[1],
                   position.entry_spread_pct + position.mode.stop_loss_pct)
  THEN "SL"
  ELSE ""

_check_close_conditions(position) ==
  LET g == get_price(gate_price, position.symbol)
      h == get_price(hl_price, position.symbol)
  IN
  IF NotPrice(g) \/ NotPrice(h) THEN ""
  ELSE IF SpreadLE(g[1], h[1], position.mode.target_spread_pct)
  THEN "TP"
  ELSE IF SpreadGE(g[1], h[1],
                   position.entry_spread_pct + position.mode.stop_loss_pct)
  THEN "SL"
  ELSE IF Now - position.open_time >= position.mode.timeout_minutes
  THEN "Timeout"
  ELSE ""

PositionIds(ps) == {ps[i].position_id : i \in 1..Len(ps)}

PositionOf(ps, id) == ps[CHOOSE i \in 1..Len(ps) : ps[i].position_id = id]

\* positions_to_close of one monitor iteration, in dict order
RECURSIVE ToClose(_)
ToClose(ps) ==
  IF ps = <<>> THEN <<>>
  ELSE (IF _check_close_conditions(Head(ps)) # ""
        THEN <<[position_id |-> Head(ps).position_id,
                reason |-> _check_close_conditions(Head(ps))]>>
        ELSE <<>>) \o ToClose(Tail(ps))

\* ------------------------------------------ PositionManager.close_position
GateCloseOp(direction) == IF direction = "GATE_SHORT" THEN "buy" ELSE "sell"

HLCloseOp(direction) == IF direction = "GATE_SHORT" THEN "sell" ELSE "buy"

KeepUnlessBothClosed(ps, id, gate_exc, hl_exc) ==
  IF gate_exc \/ hl_exc THEN ps
  ELSE SelectSeq(ps, LAMBDA x : x.position_id # id)

RemovePositionNever(ps, id, gate_exc, hl_exc) == ps

\* del self.positions[position_id], whatever the two results are
RemovePosition(ps, id, gate_exc, hl_exc) ==
  SelectSeq(ps, LAMBDA x : x.position_id # id)

NoClose == [position_id |-> 0, direction |-> "none", gate_size |-> 0,
            hl_size |-> 0, reason |-> ""]

\* variant: the map is scanned again before every close of the iteration
MonitorProceedRescan(todo, ps) ==
  IF ToClose(ps) = <<>>
  THEN /\ monPc' = (IF running THEN "wait" ELSE "done")
       /\ positions_to_close' = <<>>
       /\ closeCall' = NoClose
       /\ UNCHANGED orders
  ELSE LET id == Head(ToClose(ps)).position_id
           position == PositionOf(ps, id)
       IN /\ monPc' = "closing"
          /\ positions_to_close' = Tail(ToClose(ps))
          /\ closeCall' = [position_id |-> id,
                           direction |-> position.direction,
                           gate_size |-> position.gate_order.size,
                           hl_size |-> position.hl_order.size,
                           reason |-> Head(ToClose(ps)).reason]
          /\ orders' = Sent({
                 Submitted("gate", GateCloseOp(position.direction),
                           position.gate_order.size, id),
                 Submitted("hl", HLCloseOp(position.direction),
                           position.hl_order.size, id)})

\* The monitor's for loop over positions_to_close reaches its next entry:
\* close_position looks the id up, launches both reversing orders and awaits
\* them; with no entry left the while loop tests _running and waits again.
\* (ids in the list are always in the map: only this loop removes positions)
MonitorProceed(todo, ps) ==
  IF todo = <<>>
  THEN /\ monPc' = (IF running THEN "wait" ELSE "done")
       /\ positions_to_close' = <<>>
       /\ closeCall' = NoClose
       /\ UNCHANGED orders
  ELSE LET id == Head(todo).position_id
           position == PositionOf(ps, id)
       IN /\ monPc' = "closing"
          /\ positions_to_close' = Tail(todo)
          /\ closeCall' = [position_id |-> id,
                           direction |-> position.direction,
                           gate_size |-> position.gate_order.size,
                           hl_size |-> position.hl_order.size,
                           reason |-> Head(todo).reason]
          /\ orders' = Sent({
                 Submitted("gate", GateCloseOp(position.direction),
                           position.gate_order.size, id),
                 Submitted("hl", HLCloseOp(position.direction),
                           position.hl_order.size, id)})

\* ---------------------------------------- PositionManager.monitor_positions
\* start_monitor creates the task when there is none or it is done
start_monitor ==
  /\ openPc # "new"
  /\ monPc \in {"none", "done"}
  /\ monPc' = "created"
  /\ stop_called' = FALSE
  /\ UNCHANGED <<positions, check_event, on_position_closed, nextId, openPc,
                 openCall, running, positions_to_close, closeCall, gate_price,
                 hl_price, orders, openLog, closeLog, close_failed, callbackLog>>
  /\ UNCHANGED notPmVars

\* The first scheduling of the created task: monitor_positions sets _running
\* and its loop test passes.
MonitorTaskStart ==
  /\ monPc = "created"
  /\ running' = TRUE
  /\ monPc' = "wait"
  /\ UNCHANGED <<positions, check_event, on_position_closed, nextId, openPc,
                 openCall, positions_to_close, closeCall, gate_price, hl_price,
                 orders, openLog, closeLog, close_failed, stop_called,
                 callbackLog>>
  /\ UNCHANGED notPmVars

\* stop_monitor only clears _running; it is taken here while a monitor task
\* exists and the call changes something.
stop_monitor ==
  /\ monPc \in {"created", "wait", "closing", "callback"}
  /\ running \/ ~stop_called
  /\ running' = FALSE
  /\ stop_called' = TRUE
  /\ UNCHANGED <<positions, check_event, on_position_closed, nextId, openPc,
                 openCall, monPc, positions_to_close, closeCall, gate_price,
                 hl_price, orders, openLog, closeLog, close_failed, callbackLog>>
  /\ UNCHANGED notPmVars

\* One pass of the loop body from the end of its wait to its next await:
\* the event fired or the 100ms wait timed out, the event is cleared, every
\* position is checked and the first close (if any) is launched.
MonitorIteration ==
  /\ monPc = "wait"
  /\ check_event' = FALSE
  /\ MonitorProceed(ToClose(positions), positions)
  /\ UNCHANGED <<positions, running, on_position_closed, nextId, openPc,
                 openCall, gate_price, hl_price, openLog, closeLog, close_failed, stop_called,
                 callbackLog>>
  /\ UNCHANGED notPmVars

\* "if result and self._on_position_closed"
CallbackInvoked(result_ok) == result_ok /\ on_position_closed

\* close_position's gather returned: the position is removed, the result is
\* None when a leg raised; then the callback, or the next close.
MonitorCloseDone ==
  /\ monPc = "closing"
  /\ \E gate_exc \in BOOLEAN, hl_exc \in BOOLEAN :
       LET result_ok == ~gate_exc /\ ~hl_exc
           ps == RemovePosition(positions, closeCall.position_id, gate_exc, hl_exc)
       IN
       /\ positions' = ps
       /\ close_failed' = (close_failed \/ ~result_ok)
       /\ closeLog' = Returned(closeLog,
                                [position_id |-> closeCall.position_id,
                                 gate_exc |-> gate_exc,
                                 hl_exc |-> hl_exc,
                                 reason |-> closeCall.reason])
       /\ IF CallbackInvoked(result_ok)
          THEN /\ monPc' = "callback"
               /\ callbackLog' = (IF Observed
                                   THEN callbackLog (+)
                                          SetToBag({closeCall.position_id})
                                   ELSE callbackLog)
               /\ UNCHANGED <<positions_to_close, closeCall, orders>>
          ELSE /\ MonitorProceed(positions_to_close, ps)
               /\ UNCHANGED callbackLog
  /\ UNCHANGED <<check_event, running, on_position_closed, nextId, openPc,
                 openCall, gate_price, hl_price, openLog, stop_called>>
  /\ UNCHANGED notPmVars

\* the completion callback returned (or raised: the error is only logged)
MonitorCallbackStep ==
  /\ monPc = "callback"
  /\ MonitorProceed(positions_to_close, positions)
  /\ UNCHANGED <<positions, check_event, running, on_position_closed, nextId,
                 openPc, openCall, gate_price, hl_price, openLog,
                 closeLog, close_failed, stop_called, callbackLog>>

MonitorCallbackDone == MonitorCallbackStep /\ UNCHANGED notPmVars

\* ------------------------------------------------------------- environment
\* a price monitor publishes a price
PriceStep(s) ==
  /\ \/ \E v \in GatePriceValues :
          gate_price' = SetPrice(gate_price, s, v) /\ UNCHANGED hl_price
     \/ \E v \in PriceValues :
          hl_price' = SetPrice(hl_price, s, v) /\ UNCHANGED gate_price
  /\ UNCHANGED <<positions, check_event, running, on_position_closed, nextId,
                 openPc, openCall, monPc, positions_to_close, closeCall,
                 orders, openLog, closeLog, close_failed, stop_called, callbackLog>>
  /\ UNCHANGED notPmVars

PriceUpdate == \E s \in EnvSymbols : PriceStep(s)

Tick ==
  /\ \E i \in 1..Len(positions) : positions[i].open_time > Now - MaxTime
  /\ positions' = [i \in 1..Len(positions) |->
                     [positions[i] EXCEPT
                        !.open_time = Max(@ - 1, Now - MaxTime)]]
  /\ UNCHANGED <<check_event, running, on_position_closed, nextId,
                 openPc, openCall, monPc, positions_to_close, closeCall,
                 gate_price, hl_price, orders, openLog, closeLog, close_failed, stop_called, callbackLog>>
  /\ UNCHANGED notPmVars

InitPM ==
  /\ positions = <<>>
  /\ check_event = FALSE
  /\ running = FALSE
  /\ on_position_closed = FALSE
  /\ nextId = 1
  /\ openPc = "new"
  /\ openCall = NoCall
  /\ monPc = "none"
  /\ positions_to_close = <<>>
  /\ closeCall = NoClose
  /\ gate_price = NoPrices
  /\ hl_price = NoPrices
  /\ orders = EmptyBag
  /\ openLog = {}
  /\ closeLog = {}
  /\ close_failed = FALSE
  /\ stop_called = FALSE
  /\ callbackLog = EmptyBag

\* ===================================================================== Bot
\* bound: open_position calls the Bot makes
MaxOpens == 2

\* available balance a venue reports, prices at which a leg fills, the Gate
\* taker fee rate (percent) and the net spreads calculate_net_spread returns
\* (hundredths of a percent)
BalanceValues == {150}

FillPrices == {100}

GateFeeRates == {1}

NetSpreadValues == EntrySpreads \cup {100}

\* Hyperliquid mids of a Bot run: at the Gate price and 3% above it
BotPriceValues == {100, 103}

\* ---------------------------------------------- SpreadFinder.get_raw_spread
\* spread_pct = |gate - hl| / ((gate + hl) / 2) * 100 is kept as the
\* fraction num / den
get_raw_spreadNoneOnly(symbol) ==
  LET gp == get_price(gate_price, symbol)
      hp == get_price(hl_price, symbol)
  IN
  IF gp = <<>> \/ hp = <<>> THEN <<>>
  ELSE <<[spread_pct |-> [num |-> 200 * Abs(gp[1] - hp[1]),
                          den |-> gp[1] + hp[1]],
          direction |-> IF gp[1] > hp[1] THEN "GATE_SHORT" ELSE "HL_SHORT",
          gate_price |-> gp[1],
          hl_price |-> hp[1]]>>

get_raw_spread(symbol) ==
  LET gp == get_price(gate_price, symbol)
      hp == get_price(hl_price, symbol)
  IN
  IF NotPrice(gp) \/ NotPrice(hp) THEN <<>>
  ELSE <<[spread_pct |-> [num |-> 200 * Abs(gp[1] - hp[1]),
                          den |-> gp[1] + hp[1]],
          direction |-> IF gp[1] > hp[1] THEN "GATE_SHORT" ELSE "HL_SHORT",
          gate_price |-> gp[1],
          hl_price |-> hp[1]]>>

\* float(raw_spread.spread_pct) < x, x in hundredths of a percent
RawSpreadBelow(raw_spread, x) ==
  100 * raw_spread.spread_pct.num < x * raw_spread.spread_pct.den

\* ------------------------------------------- PositionManager.has_position
has_position(symbol) ==
  \E i \in 1..Len(positions) : positions[i].symbol = symbol

\* ------------------------------------------------------------ Bot balances
\* variant: the balance check always passes
_check_balance_availableAlways(size_usdt) == TRUE

_check_balance_available(size_usdt) ==
  /\ gate_balance # <<>>
  /\ hyperliquid_balance # <<>>
  /\ gate_balance[1] >= size_usdt
  /\ hyperliquid_balance[1] >= size_usdt

_update_local_balances(gate_amount, hl_amount) ==
  /\ gate_balance' = IF gate_balance # <<>>
                     THEN <<gate_balance[1] + gate_amount>>
                     ELSE gate_balance
  /\ hyperliquid_balance' = IF hyperliquid_balance # <<>>
                            THEN <<hyperliquid_balance[1] + hl_amount>>
                            ELSE hyperliquid_balance

\* both get_balance calls returned, or one raised and nothing is assigned
_refresh_balances ==
  \/ \E g \in BalanceValues, h \in BalanceValues :
       /\ gate_balance' = <<g>>
       /\ hyperliquid_balance' = <<h>>
  \/ UNCHANGED <<gate_balance, hyperliquid_balance>>

\* ------------------------------------------------------------ Bot.__init__
Bot__init__ ==
  /\ botPc = "none"
  /\ openPc = "new"
  /\ botPc' = "init"
  /\ openPc' = "idle"
  /\ on_position_closed' = TRUE
  /\ _position_semaphore' = 1
  /\ UNCHANGED <<gate_balance, hyperliquid_balance, handlerPc>>
  /\ UNCHANGED <<positions, check_event, running, nextId, openCall, monPc,
                 positions_to_close, closeCall, gate_price, hl_price,
                 orders, openLog, closeLog, close_failed, stop_called, callbackLog>>
  /\ UNCHANGED notBotVars

\* ---------------------------------------------------------- Bot.__aenter__
\* balances are fetched and the position monitor is started; the monitor
\* task takes its first step at run's first await
Bot__aenter__ ==
  /\ botPc = "init"
  /\ botPc' = "entered"
  /\ \E g \in BalanceValues, h \in BalanceValues :
       /\ gate_balance' = <<g>>
       /\ hyperliquid_balance' = <<h>>
  /\ monPc' = "wait"
  /\ running' = TRUE
  /\ UNCHANGED <<_position_semaphore, handlerPc>>
  /\ UNCHANGED <<positions, check_event, on_position_closed, nextId, openPc,
                 openCall, positions_to_close, closeCall, gate_price, hl_price,
                 orders, openLog, closeLog, close_failed, stop_called, callbackLog>>
  /\ UNCHANGED notBotVars

\* ------------------------------------------------------------------ Bot.run
\* A handler task is at one of its awaits ("start" before its first step,
\* "sem" at the semaphore, "net" at calculate_net_spread, "open" at
\* open_position, "refresh" / "refresh compensated" at _refresh_balances
\* after a failed / a compensated open) or it is done, and then handlerPc
\* tells how it ended.
HandlerAwaits == {"start", "sem", "net", "open", "refresh",
                  "refresh compensated"}

HandlerDone(s) == handlerPc[s] \notin HandlerAwaits

\* one iteration of the main loop: a handler per symbol is launched once the
\* gather of the previous iteration has returned
RunIteration ==
  /\ botPc \in {"entered", "running"}
  /\ \A s \in Symbols : HandlerDone(s)
  /\ botPc' = "running"
  /\ handlerPc' = [s \in Symbols |-> "start"]
  /\ UNCHANGED <<gate_balance, hyperliquid_balance, _position_semaphore>>
  /\ UNCHANGED <<notBotVars, pmVars>>

\* ------------------------------------------------ Bot._handle_min_spread_mode
\* variant: the permit is not given back when the handler ends
HandlerReturnKeepsPermit(s, how) ==
  /\ handlerPc' = [handlerPc EXCEPT ![s] = how]
  /\ UNCHANGED _position_semaphore

\* the handler leaves the critical section and ends
HandlerReturn(s, how) ==
  /\ handlerPc' = [handlerPc EXCEPT ![s] = how]
  /\ _position_semaphore' = 1

HandlerGoes(s, pc) == handlerPc' = [handlerPc EXCEPT ![s] = pc]

\* the permit is taken; the checks made before the first await
CriticalSectionNoPositionCheck(s) ==
  IF ~_check_balance_available(Mode.usd_size_per_pos)
  THEN HandlerReturn(s, "balance")
  ELSE /\ HandlerGoes(s, "net")
       /\ _position_semaphore' = 0

CriticalSection(s) ==
  IF has_position(s)
  THEN HandlerReturn(s, "position")
  ELSE IF ~_check_balance_available(Mode.usd_size_per_pos)
  THEN HandlerReturn(s, "balance")
  ELSE /\ HandlerGoes(s, "net")
       /\ _position_semaphore' = 0

\* "async with self._position_semaphore": the single permit is out
SemaphoreLockedNever == FALSE

SemaphoreLocked == _position_semaphore = 0

\* the raw-spread check, then the semaphore: taken at once when free
HandlerStart(s) ==
  /\ handlerPc[s] = "start"
  /\ LET raw_spread == get_raw_spread(s) IN
     IF raw_spread = <<>> \/ RawSpreadBelow(raw_spread[1], Mode.percentage)
     THEN /\ HandlerGoes(s, "raw")
          /\ UNCHANGED _position_semaphore
     ELSE IF SemaphoreLocked
          THEN /\ HandlerGoes(s, "sem")
               /\ UNCHANGED _position_semaphore
          ELSE CriticalSection(s)
  /\ UNCHANGED <<gate_balance, hyperliquid_balance, botPc>>
  /\ UNCHANGED <<notBotVars, pmVars>>

\* a handler waiting for the semaphore gets the permit
HandlerAcquire(s) ==
  /\ handlerPc[s] = "sem"
  /\ ~SemaphoreLocked
  /\ CriticalSection(s)
  /\ UNCHANGED <<gate_balance, hyperliquid_balance, botPc>>
  /\ UNCHANGED <<notBotVars, pmVars>>

\* calculate_net_spread returned (or raised: the exception leaves the
\* critical section); above the threshold open_position is called
HandlerNetSpread(s) ==
  /\ handlerPc[s] = "net"
  /\ \/ /\ HandlerReturn(s, "raised")
        /\ UNCHANGED pmVars
     \/ \E spread_pct \in NetSpreadValues,
           best_direction \in {"GATE_SHORT", "HL_SHORT"} :
          IF spread_pct < Mode.percentage
          THEN /\ HandlerReturn(s, "net below")
               /\ UNCHANGED pmVars
          ELSE /\ openPc = "idle"
               /\ nextId <= MaxOpens
               /\ OpenCall(s, best_direction, Mode.usd_size_per_pos,
                           spread_pct)
               /\ HandlerGoes(s, "open")
               /\ UNCHANGED _position_semaphore
  /\ UNCHANGED <<gate_balance, hyperliquid_balance, botPc>>
  /\ UNCHANGED notBotVars

\* open_position returned to the handler: a position is debited at its
\* orders' size * fill_price plus fee (Hyperliquid orders carry no fee and an
\* unfilled one has fill_price 0); None leads to a balance refresh
HandlerOpenReturned(s, position, refreshPc) ==
  IF position # <<>>
  THEN \E gate_fill_price \in FillPrices, hl_fill_price \in FillPrices,
          tkfr \in GateFeeRates :
         LET gate_order == position[1].gate_order
             hl_order == position[1].hl_order
             gate_size_usd == gate_order.size * gate_fill_price
             hl_size_usd == hl_order.size *
                              (IF hl_order.status = "filled"
                               THEN hl_fill_price ELSE 0)
             gate_total == gate_size_usd + (gate_size_usd * tkfr) \div 100
             hl_total == hl_size_usd
         IN /\ _update_local_balances(-gate_total, -hl_total)
            /\ HandlerReturn(s, "opened")
  ELSE /\ HandlerGoes(s, refreshPc)
       /\ UNCHANGED <<gate_balance, hyperliquid_balance, _position_semaphore>>

BotOpenLegsDone ==
  \E s \in Symbols :
    /\ handlerPc[s] = "open"
    /\ OpenLegsStep
    /\ IF openPc' = "comp"
       THEN UNCHANGED <<gate_balance, hyperliquid_balance,
                        _position_semaphore, handlerPc>>
       ELSE HandlerOpenReturned(s,
              IF Len(positions') > Len(positions)
              THEN <<positions'[Len(positions')]>> ELSE <<>>,
              "refresh")
    /\ UNCHANGED botPc
    /\ UNCHANGED notBotVars

BotOpenCompDone ==
  \E s \in Symbols :
    /\ handlerPc[s] = "open"
    /\ OpenCompStep
    /\ HandlerOpenReturned(s, <<>>, "refresh compensated")
    /\ UNCHANGED botPc
    /\ UNCHANGED notBotVars

\* the refresh after a failed open returned or raised
HandlerRefreshDone(s) ==
  /\ handlerPc[s] \in {"refresh", "refresh compensated"}
  /\ _refresh_balances
  /\ HandlerReturn(s, "not opened")
  /\ UNCHANGED botPc
  /\ UNCHANGED <<notBotVars, pmVars>>

\* --------------------------------------- Bot._on_position_closed_callback
BotMonitorCallbackDone ==
  /\ MonitorCallbackStep
  /\ _refresh_balances
  /\ UNCHANGED <<_position_semaphore, botPc, handlerPc>>
  /\ UNCHANGED notBotVars

\* the price monitors publish a batch with a price for each of the Bot's
\* symbols (Gate tickers / Hyperliquid allMids)
BotPriceUpdate ==
  /\ \/ \E m \in [Symbols -> GatePriceValues] :
          gate_price' = m /\ UNCHANGED hl_price
     \/ \E m \in [Symbols -> BotPriceValues] :
          hl_price' = m /\ UNCHANGED gate_price
  /\ UNCHANGED <<positions, check_event, running, on_position_closed, nextId,
                 openPc, openCall, monPc, positions_to_close, closeCall,
                 orders, openLog, closeLog, close_failed, stop_called, callbackLog>>
  /\ UNCHANGED notPmVars

InitBot ==
  /\ gate_balance = <<>>
  /\ hyperliquid_balance = <<>>
  /\ _position_semaphore = 1
  /\ botPc = "none"
  /\ handlerPc = [s \in Symbols |-> "idle"]

\* ================================================== clients' set_leverage
\* bounds: leverages asked for, set_leverage calls made
MaxLeverage == 2
MaxLevCalls == 3

\* leverage_cache_ttl, in seconds
leverage_cache_ttl == 3600

Venues == {"gate", "hl"}

Leverages == 1..MaxLeverage

\* seconds that pass in one LeverageTick
LeverageStep == leverage_cache_ttl \div 2

LevCall(venue, symbol, leverage) ==
  [venue |-> venue, symbol |-> symbol, leverage |-> leverage]

\* "if cached: ... cached_lev == leverage and (time.time() - cached_time) <
\* self.leverage_cache_ttl"
CacheHitTtlInverted(cached, leverage) ==
  /\ cached # <<>>
  /\ cached[1].leverage = leverage
  /\ Now - cached[1].time > leverage_cache_ttl

CacheHitAnyLeverage(cached, leverage) ==
  /\ cached # <<>>
  /\ Now - cached[1].time < leverage_cache_ttl

CacheHit(cached, leverage) ==
  /\ cached # <<>>
  /\ cached[1].leverage = leverage
  /\ Now - cached[1].time < leverage_cache_ttl

\* set_leverage up to its await: return on a cache hit, else the request
\* goes to the venue
set_leverage(venue, symbol, leverage) ==
  /\ levCalls < MaxLevCalls
  /\ levCalls' = levCalls + 1
  /\ IF CacheHit(_leverage_cache[venue][symbol], leverage)
     THEN UNCHANGED <<levInFlight, levRequests>>
     ELSE /\ levInFlight' = levInFlight (+)
                              SetToBag({LevCall(venue, symbol, leverage)})
          /\ levRequests' = levRequests + 1
  /\ UNCHANGED <<_leverage_cache, levLast, levLastOk>>
  /\ UNCHANGED notLevVars

\* the venue accepted the update: the cache entry is written
SetLeverageOk ==
  /\ \E c \in BagToSet(levInFlight) :
       /\ levInFlight' = levInFlight (-) SetToBag({c})
       /\ _leverage_cache' =
            [_leverage_cache EXCEPT ![c.venue][c.symbol] =
               <<[leverage |-> c.leverage, time |-> Now]>>]
       /\ levLast' = [levLast EXCEPT ![c.venue][c.symbol] =
               <<[leverage |-> c.leverage, ok |-> TRUE, time |-> Now]>>]
       /\ levLastOk' = [levLastOk EXCEPT ![c.venue][c.symbol] =
               <<[leverage |-> c.leverage, time |-> Now]>>]
  /\ UNCHANGED <<levCalls, levRequests>>
  /\ UNCHANGED notLevVars

\* the venue call raised: OrderError, nothing is cached
SetLeverageFail ==
  /\ \E c \in BagToSet(levInFlight) :
       /\ levInFlight' = levInFlight (-) SetToBag({c})
       /\ levLast' = [levLast EXCEPT ![c.venue][c.symbol] =
               <<[leverage |-> c.leverage, ok |-> FALSE, time |-> Now]>>]
  /\ UNCHANGED <<_leverage_cache, levCalls, levRequests, levLastOk>>
  /\ UNCHANGED notLevVars

\* LeverageStep seconds pass (ages of a whole ttl and more are not told apart)
Older(entry) ==
  IF entry = <<>> THEN entry
  ELSE <<[entry[1] EXCEPT
            !.time = Max(@ - LeverageStep, Now - leverage_cache_ttl)]>>

LeverageTick ==
  /\ \E v \in Venues, s \in Symbols :
       \/ Older(_leverage_cache[v][s]) # _leverage_cache[v][s]
       \/ Older(levLast[v][s]) # levLast[v][s]
       \/ Older(levLastOk[v][s]) # levLastOk[v][s]
  /\ _leverage_cache' = [v \in Venues |-> [s \in Symbols |->
                            Older(_leverage_cache[v][s])]]
  /\ levLast' = [v \in Venues |-> [s \in Symbols |-> Older(levLast[v][s])]]
  /\ levLastOk' = [v \in Venues |-> [s \in Symbols |->
                      Older(levLastOk[v][s])]]
  /\ UNCHANGED <<levInFlight, levCalls, levRequests>>
  /\ UNCHANGED notLevVars

InitLev ==
  /\ _leverage_cache = [v \in Venues |-> [s \in Symbols |-> <<>>]]
  /\ levInFlight = EmptyBag
  /\ levCalls = 0
  /\ levRequests = 0
  /\ levLast = [v \in Venues |-> [s \in Symbols |-> <<>>]]
  /\ levLastOk = [v \in Venues |-> [s \in Symbols |-> <<>>]]

\* ========================================================== price monitors
\* bound: consecutive failed connections followed
MaxPxFailures == 7

_max_reconnect_delay == 60

\* 'last' of a Gate ticker (0 when the ticker carries none) and Hyperliquid
\* mids
GateLastValues == {0, 100}

HLMidValues == {100, 103}

\* a batch of one message: prices for some of the symbols
Batches(values) == UNION {[S -> values] : S \in SUBSET Symbols}

\* "for ...: prices[contract] = ..." over one batch, the other entries stay
SetPricesReplacingMap(prices, batch) == batch

SetPrices(prices, batch) ==
  [k \in DOMAIN prices \cup DOMAIN batch |->
     IF k \in DOMAIN batch THEN batch[k] ELSE prices[k]]

NoMessage == [event |-> "none", error |-> FALSE]

\* ------------------------------------------------- GatePriceMonitor.start
GatePxStart ==
  /\ pxStartPc = "none"
  /\ pxStartPc' = "waiting"
  /\ pxWsPc' = "connecting"
  /\ UNCHANGED <<gate_px_is_ready, _reconnect_delay, hl_px_is_ready, pxSleep,
                 pxFailures, pxLast, gate_price, hl_price>>
  /\ UNCHANGED notPxVars

\* wait_for(self._ready.wait(), timeout=30) returned, or timed out
GatePxStartDone ==
  /\ pxStartPc = "waiting"
  /\ pxStartPc' = (IF gate_px_is_ready THEN "returned" ELSE "timeout")
  /\ UNCHANGED <<gate_px_is_ready, pxWsPc, _reconnect_delay, hl_px_is_ready,
                 pxSleep, pxFailures, pxLast, gate_price, hl_price>>
  /\ UNCHANGED notPxVars

\* ----------------------------------------------- GatePriceMonitor._ws_loop
\* an exception left the try block: the loop sleeps _reconnect_delay
PxFailed(exc) ==
  /\ pxFailures < MaxPxFailures
  /\ pxFailures' = pxFailures + 1
  /\ pxWsPc' = "sleeping"
  /\ pxSleep' = <<[delay |-> _reconnect_delay, exc |-> exc]>>
  /\ UNCHANGED _reconnect_delay

PxExceptions == {"WebSocketException", "Exception"}

\* websockets.connect returned a connection or raised
GatePxConnect ==
  /\ pxWsPc = "connecting"
  /\ \/ /\ pxWsPc' = "connected"
        /\ _reconnect_delay' = 1
        /\ pxFailures' = 0
        /\ UNCHANGED pxSleep
     \/ \E exc \in PxExceptions : PxFailed(exc)
  /\ UNCHANGED <<gate_px_is_ready, pxStartPc, hl_px_is_ready, pxLast,
                 gate_price, hl_price>>
  /\ UNCHANGED notPxVars

\* the connection ended: "async for" finished on a normal closure and the
\* while loop connects again at once, or an exception was raised
GatePxDisconnect ==
  /\ pxWsPc = "connected"
  /\ \/ /\ pxWsPc' = "connecting"
        /\ UNCHANGED <<_reconnect_delay, pxSleep, pxFailures>>
     \/ \E exc \in PxExceptions : PxFailed(exc)
  /\ UNCHANGED <<gate_px_is_ready, pxStartPc, hl_px_is_ready, pxLast,
                 gate_price, hl_price>>
  /\ UNCHANGED notPxVars

\* the sleep ended; only the WebSocketException handler doubles the delay
DelayAfter(delay, exc) ==
  IF exc = "WebSocketException"
  THEN Min(delay * 2, _max_reconnect_delay)
  ELSE delay

GatePxWake ==
  /\ pxWsPc = "sleeping"
  /\ pxWsPc' = "connecting"
  /\ _reconnect_delay' = DelayAfter(_reconnect_delay, pxSleep[1].exc)
  /\ pxSleep' = <<>>
  /\ UNCHANGED <<gate_px_is_ready, pxStartPc, hl_px_is_ready, pxFailures,
                 pxLast, gate_price, hl_price>>
  /\ UNCHANGED notPxVars

\* ------------------------------------------ GatePriceMonitor._handle_message
\* "elif event == 'subscribe': if msg.get('error') is None and not ready"
ReadyOnAnySubscribe(error) == TRUE

ReadyOnSubscribe(error) == ~error

\* a futures.tickers message: a subscribe acknowledgement (with or without an
\* error), or an update whose tickers are applied in one pass; a ticker that
\* does not parse (error) ends the pass before the latch is touched
GatePxMessage ==
  /\ pxWsPc = "connected"
  /\ \/ \E error \in BOOLEAN :
          /\ pxLast' = [event |-> "subscribe", error |-> error]
          /\ gate_px_is_ready' = (gate_px_is_ready \/ ReadyOnSubscribe(error))
          /\ UNCHANGED gate_price
     \/ \E batch \in Batches(GateLastValues), error \in BOOLEAN :
          /\ pxLast' = [event |-> "update", error |-> error]
          /\ gate_price' = SetPrices(gate_price, batch)
          /\ gate_px_is_ready' = (gate_px_is_ready \/ ~error)
  /\ UNCHANGED <<pxStartPc, pxWsPc, _reconnect_delay, hl_px_is_ready, pxSleep,
                 pxFailures, hl_price>>
  /\ UNCHANGED notPxVars

\* -------------------------------- HyperliquidPriceMonitor._on_mids_update
\* an allMids message; a mid that does not parse (error) ends the pass
\* before the latch is touched
HLPxMids ==
  /\ \E batch \in Batches(HLMidValues), error \in BOOLEAN :
       /\ hl_price' = SetPrices(hl_price, batch)
       /\ hl_px_is_ready' = (hl_px_is_ready \/ ~error)
  /\ UNCHANGED <<gate_px_is_ready, pxStartPc, pxWsPc, _reconnect_delay,
                 pxSleep, pxFailures, pxLast, gate_price>>
  /\ UNCHANGED notPxVars

InitPx ==
  /\ gate_px_is_ready = FALSE
  /\ pxStartPc = "none"
  /\ pxWsPc = "none"
  /\ _reconnect_delay = 1
  /\ hl_px_is_ready = FALSE
  /\ pxSleep = <<>>
  /\ pxFailures = 0
  /\ pxLast = NoMessage

\* ==================================================== GateClient startup
\* bound: positions the venue lists for the account
MaxVenuePositions == 2

\* Position.size of the listed positions (contracts, signed)
VenueSizes == {-1, 0, 1}

VenuePositionLists ==
  UNION {[1..n -> VenueSizes] : n \in 0..MaxVenuePositions}

\* labels of a GateApiException
ApiLabels == {"USER_NOT_FOUND", "SERVER_ERROR"}

\* in_dual_mode or enable_new_dual_mode
CurrentDual(acc) == acc.in_dual_mode \/ acc.enable_new_dual_mode

\* positions and any(p.size != 0 for p in positions)
AnyOpenPositionFirstOnly(listed) == Len(listed) > 0 /\ listed[1] # 0

AnyOpenPosition(listed) ==
  Len(listed) > 0 /\ \E i \in 1..Len(listed) : listed[i] # 0

\* except GateApiException: USER_NOT_FOUND is swallowed, any other label is
\* re-raised as RuntimeError
ApiFailed(label) ==
  startupPc' = (IF label = "USER_NOT_FOUND" THEN "mode done" ELSE "failed")

\* GateClient(..., dual_mode=...) with the keys of an account in either mode
GateClient__init__ ==
  /\ startupPc = "none"
  /\ startupPc' = "new"
  /\ dual_mode' \in BOOLEAN
  /\ venue_dual' \in BOOLEAN
  /\ UNCHANGED <<account, venue_positions, dualModeRequests>>
  /\ UNCHANGED notModeVars

\* __aenter__ -> _init_setup -> _refresh_contracts
RefreshContracts ==
  /\ startupPc = "new"
  /\ startupPc' \in {"contracts", "failed"}
  /\ UNCHANGED <<dual_mode, account, venue_positions, venue_dual,
                 dualModeRequests>>
  /\ UNCHANGED notModeVars

\* _set_position_mode: list_futures_accounts returned or raised
ListAccounts ==
  /\ startupPc = "contracts"
  /\ \/ \E new \in BOOLEAN :
          LET acc == [in_dual_mode |-> venue_dual /\ ~new,
                      enable_new_dual_mode |-> venue_dual /\ new]
          IN
          /\ account' = <<acc>>
          /\ startupPc' = (IF CurrentDual(acc) # dual_mode
                           THEN "positions" ELSE "mode done")
     \/ \E label \in ApiLabels : ApiFailed(label) /\ UNCHANGED account
  /\ UNCHANGED <<dual_mode, venue_positions, venue_dual, dualModeRequests>>
  /\ UNCHANGED notModeVars

\* list_positions returned or raised; with an open position RuntimeError
\* leaves _set_position_mode, otherwise set_dual_mode is requested
ListPositions ==
  /\ startupPc = "positions"
  /\ \/ \E listed \in VenuePositionLists :
          /\ venue_positions' = <<listed>>
          /\ IF AnyOpenPosition(listed)
             THEN startupPc' = "failed" /\ UNCHANGED dualModeRequests
             ELSE /\ startupPc' = "setting"
                  /\ dualModeRequests' = Append(dualModeRequests, dual_mode)
     \/ /\ \E label \in ApiLabels : ApiFailed(label)
        /\ UNCHANGED <<venue_positions, dualModeRequests>>
  /\ UNCHANGED <<dual_mode, account, venue_dual>>
  /\ UNCHANGED notModeVars

\* set_dual_mode returned or raised
SetDualMode ==
  /\ startupPc = "setting"
  /\ \/ startupPc' = "mode done" /\ venue_dual' = dual_mode
     \/ (\E label \in ApiLabels : ApiFailed(label)) /\ UNCHANGED venue_dual
  /\ UNCHANGED <<dual_mode, account, venue_positions, dualModeRequests>>
  /\ UNCHANGED notModeVars

\* the rest of __aenter__: the updater task and the two monitors
ClientStarted ==
  /\ startupPc = "mode done"
  /\ startupPc' = "started"
  /\ UNCHANGED <<dual_mode, account, venue_positions, venue_dual,
                 dualModeRequests>>
  /\ UNCHANGED notModeVars

InitMode ==
  /\ dual_mode = FALSE
  /\ venue_dual = FALSE
  /\ startupPc = "none"
  /\ account = <<>>
  /\ venue_positions = <<>>
  /\ dualModeRequests = <<>>

\* ====================================================== emergency utility
stop_after_attempt == 5

\* a position is a venue and a coin
EmPositions == {<<"GATE", "BTC">>, <<"HYPERLIQUID", "BTC">>}

OnVenue(ps, venue) == {q \in ps : q[1] = venue}

\* stop=stop_after_attempt(5): no further attempt once this many were made
StopAfterAttemptSix(attempt_number) == attempt_number >= stop_after_attempt + 1

StopAfterAttempt(attempt_number) == attempt_number >= stop_after_attempt

\* main(): EmergencyShutdown() while some positions are live at the venues
EmMain ==
  /\ emPc = "none"
  /\ emPc' = "initialize"
  /\ emLive' \in SUBSET EmPositions
  /\ UNCHANGED <<emListed, all_closed, emAttempts, failed_closes, exitCode,
                 emClosedOk, emErrors>>
  /\ UNCHANGED notEmVars

\* run(): initialize_exchanges returned, or raised: own_exchanges is still
\* False, cleanup does nothing and the exception ends the process
EmInitialize ==
  /\ emPc = "initialize"
  /\ \/ emPc' = "list gate" /\ UNCHANGED <<exitCode, emErrors>>
     \/ /\ emPc' = "exited"
        /\ exitCode' = <<1>>
        /\ emErrors' = emErrors \cup {"initialize"}
  /\ UNCHANGED <<emLive, emListed, all_closed, emAttempts, failed_closes,
                 emClosedOk>>
  /\ UNCHANGED notEmVars

\* close_all_positions: get_open_positions of one venue returned or raised
EmList(venue, pc, nextPc) ==
  /\ emPc = pc
  /\ emPc' = nextPc
  /\ \/ /\ emListed' = emListed \cup OnVenue(emLive, venue)
        /\ UNCHANGED <<all_closed, emErrors>>
     \/ /\ all_closed' = FALSE
        /\ emErrors' = emErrors \cup {pc}
        /\ UNCHANGED emListed
  /\ UNCHANGED <<emLive, emAttempts, failed_closes, exitCode, emClosedOk>>
  /\ UNCHANGED notEmVars

EmListGate ==
  /\ emPc = "list gate"
  /\ EmList("GATE", "list gate", "list hl")

EmListHL ==
  /\ emPc = "list hl"
  /\ EmList("HYPERLIQUID", "list hl", "gather")

EmPending(q) == q \in emListed /\ q \notin emClosedOk /\ q \notin failed_closes

\* one attempt of _close_with_retry inside _close_single_position: the close
\* returned success, or it failed (success False or an exception) and is
\* retried unless the attempts are used up, when the last exception reaches
\* _close_single_position's except branch
EmAttempt(q) ==
  /\ emPc = "gather"
  /\ EmPending(q)
  /\ emAttempts' = [emAttempts EXCEPT ![q] = @ + 1]
  /\ \/ emClosedOk' = emClosedOk \cup {q} /\ UNCHANGED failed_closes
     \/ /\ failed_closes' = IF StopAfterAttempt(emAttempts'[q])
                            THEN failed_closes \cup {q} ELSE failed_closes
        /\ UNCHANGED emClosedOk
  /\ UNCHANGED <<emPc, emLive, emListed, all_closed, exitCode, emErrors>>
  /\ UNCHANGED notEmVars

\* "for result in results: ... all_closed = False", "if self.failed_closes"
AllClosedAfterGatherOnly(flag, closed, failed) ==
  failed = {} /\ \A q \in emListed : q \in closed

AllClosedAfterGather(flag, closed, failed) ==
  flag /\ failed = {} /\ \A q \in emListed : q \in closed

\* gather returned (or there was no task): close_all_positions returns
EmGathered ==
  /\ emPc = "gather"
  /\ \A q \in emListed : ~EmPending(q)
  /\ all_closed' = AllClosedAfterGather(all_closed, emClosedOk, failed_closes)
  /\ emPc' = "cleanup"
  /\ UNCHANGED <<emLive, emListed, emAttempts, failed_closes, exitCode,
                 emClosedOk, emErrors>>
  /\ UNCHANGED notEmVars

\* finally: cleanup_exchanges returned and main() exits on all_closed, or
\* it raised and the exception ends the process
EmCleanup ==
  /\ emPc = "cleanup"
  /\ emPc' = "exited"
  /\ \/ /\ exitCode' = <<IF all_closed THEN 0 ELSE 1>>
        /\ UNCHANGED emErrors
     \/ /\ exitCode' = <<1>>
        /\ emErrors' = emErrors \cup {"cleanup"}
  /\ UNCHANGED <<emLive, emListed, all_closed, emAttempts, failed_closes,
                 emClosedOk>>
  /\ UNCHANGED notEmVars

InitEm ==
  /\ emPc = "none"
  /\ emLive = {}
  /\ emListed = {}
  /\ all_closed = TRUE
  /\ emAttempts = [q \in EmPositions |-> 0]
  /\ failed_closes = {}
  /\ exitCode = <<>>
  /\ emClosedOk = {}
  /\ emErrors = {}

\* ======================================================= ArbitrageStrategy
\* bound: positions the strategy opens
MaxStratPositions == 3

\* what one leg's close_position gave: an OrderResult with success True or
\* False, or an exception
LegResults == {"success", "failed", "exception"}

NoStratClose == [position_id |-> 0, buy |-> "none", sell |-> "none",
                 active |-> {}, closed |-> <<>>]

\* self.active_positions[position_id] = position / del
Activate(active, position_id, status) ==
  [k \in DOMAIN active \cup {position_id} |->
     IF k = position_id THEN status ELSE active[k]]

Deactivate(active, position_id) ==
  [k \in DOMAIN active \ {position_id} |-> active[k]]

\* _execute_arbitrage: both opening legs succeeded and the position is
\* stored, or the attempt is abandoned
ExecuteArbitrage ==
  /\ stratPc = "idle"
  /\ stratNext <= MaxStratPositions
  /\ stratNext' = stratNext + 1
  /\ \/ active_positions' = Activate(active_positions, stratNext, "OPEN")
     \/ UNCHANGED active_positions
  /\ UNCHANGED <<closed_positions, emergency_stop, stratPc, stratClosing,
                 stratLast>>
  /\ UNCHANGED notStratVars

\* _check_position decided to close: _close_position starts its gather
StratCloseStart ==
  /\ stratPc = "idle"
  /\ \E position_id \in DOMAIN active_positions :
       stratClosing' = position_id
  /\ stratPc' = "closing"
  /\ stratLast' = NoStratClose
  /\ UNCHANGED <<active_positions, closed_positions, emergency_stop,
                 stratNext>>
  /\ UNCHANGED notStratVars

\* buy_success / sell_success: the result is not an exception and success
LegSuccess(result) == result = "success"

\* the gather returned. "if not buy_success or not sell_success": status
\* FAILED, the position leaves active_positions, joins closed_positions and
\* emergency_stop is set; otherwise status CLOSED and the balances are read
StratCloseGathered ==
  /\ stratPc = "closing"
  /\ \E buy \in LegResults, sell \in LegResults :
       /\ stratLast' = [position_id |-> stratClosing, buy |-> buy,
                        sell |-> sell, active |-> DOMAIN active_positions,
                        closed |-> closed_positions]
       /\ IF ~LegSuccess(buy) \/ ~LegSuccess(sell)
          THEN /\ active_positions' = Deactivate(active_positions, stratClosing)
               /\ closed_positions' =
                    Append(closed_positions,
                           [id |-> stratClosing, status |-> "FAILED"])
               /\ emergency_stop' = TRUE
               /\ stratPc' = "idle"
          ELSE /\ active_positions' =
                    Activate(active_positions, stratClosing, "CLOSED")
               /\ stratPc' = "balances"
               /\ UNCHANGED <<closed_positions, emergency_stop>>
  /\ UNCHANGED <<stratNext, stratClosing>>
  /\ UNCHANGED notStratVars

\* both get_balance calls returned: the position moves to closed_positions;
\* or one raised, and _check_position logs the error
StratCloseBalances ==
  /\ stratPc = "balances"
  /\ stratPc' = "idle"
  /\ \/ /\ active_positions' = Deactivate(active_positions, stratClosing)
        /\ closed_positions' =
             Append(closed_positions,
                    [id |-> stratClosing, status |-> "CLOSED"])
     \/ UNCHANGED <<active_positions, closed_positions>>
  /\ UNCHANGED <<emergency_stop, stratNext, stratClosing, stratLast>>
  /\ UNCHANGED notStratVars

InitStrat ==
  /\ active_positions = [k \in {} |-> "OPEN"]
  /\ closed_positions = <<>>
  /\ emergency_stop = FALSE
  /\ stratPc = "idle"
  /\ stratNext = 1
  /\ stratClosing = 0
  /\ stratLast = NoStratClose

\* ====================================================== estimate_fill_price
\* bounds: levels on a book side, contracts asked for
MaxFillLevels == 2
MaxFillSize == 3

LevelPrices == {100, 101, 102}

LevelSizes == {1, 2}

PositionSides == {"LONG", "SHORT"}

\* the side estimate_fill_price walks: asks ascending for LONG, bids
\* descending for SHORT
BookSides(side) ==
  {levels \in UNION {[1..n -> [price : LevelPrices, size : LevelSizes]] :
                       n \in 0..MaxFillLevels} :
     \A i \in 1..(Len(levels) - 1) :
       IF side = "LONG" THEN levels[i].price < levels[i + 1].price
       ELSE levels[i].price > levels[i + 1].price}

\* Decimal('1.005') / Decimal('0.995'), in thousandths
slippage_factor(side) == IF side = "LONG" THEN 1005 ELSE 995

\* "for level in levels: if remaining <= 0: break; fill = min(...)"; the
\* cost is kept in thousandths
RECURSIVE WalkLevels(_, _, _)
WalkLevels(levels, i, acc) ==
  IF i > Len(levels) \/ acc.remaining <= 0 THEN acc
  ELSE LET fill == Min(acc.remaining, levels[i].size) IN
       WalkLevels(levels, i + 1,
                  [remaining |-> acc.remaining - fill,
                   total_cost |-> acc.total_cost + 1000 * fill * levels[i].price,
                   filled |-> acc.filled + fill])

\* Decimal division: 0 / 0 raises decimal.InvalidOperation
DecimalDivide(total_cost, filled) ==
  IF filled = 0
  THEN [kind |-> IF total_cost = 0 THEN "InvalidOperation"
                 ELSE "DivisionByZero",
        num |-> 0, den |-> 0]
  ELSE [kind |-> "price", num |-> total_cost, den |-> 1000 * filled]

\* the function from "levels = ..." on; size is abs(size)
estimate_fill_price(levels, size, side) ==
  IF Len(levels) = 0 THEN [kind |-> "OrderError", num |-> 0, den |-> 0]
  ELSE LET walked == WalkLevels(levels, 1,
                                [remaining |-> size, total_cost |-> 0,
                                 filled |-> 0])
           last_level == levels[Len(levels)]
           extrapolated == last_level.price * slippage_factor(side)
       IN IF walked.remaining > 0
          THEN DecimalDivide(walked.total_cost + walked.remaining * extrapolated,
                             walked.filled + walked.remaining)
          ELSE DecimalDivide(walked.total_cost, walked.filled)

\* a call: the monitor holds the book, or get_orderbook fetches it and may
\* raise OrderError
EstimateFillPrice ==
  /\ \E side \in PositionSides, size \in 0..MaxFillSize :
       \E levels \in BookSides(side), fetched \in BOOLEAN :
         /\ fillCall' = <<[levels |-> levels, size |-> size, side |-> side,
                           fetched |-> fetched]>>
         /\ \/ fillResult' = <<estimate_fill_price(levels, size, side)>>
            \/ /\ fetched
               /\ fillResult' = <<[kind |-> "OrderError", num |-> 0, den |-> 0]>>
  /\ UNCHANGED notFillVars

InitFill ==
  /\ fillCall = <<>>
  /\ fillResult = <<>>

\* ====================================================== Bot volume refresh
\* bound: refreshes of the volume cache
MaxRefreshes == 2

\* "await asyncio.sleep(300)", in minutes
refresh_minutes == 5

\* mode.min_24h_volume_usd: 0 switches the filter off
MinVolumes == {0, 2}

\* what get_24h_volume gives for a symbol: <<quote volume>>, or <<>> when it
\* raises
VolumeResults == {<<>>, <<1>>, <<2>>}

NoVolumes == [s \in Symbols |-> <<>>]

\* "if not isinstance(volume_result, Exception): self._volume_cache[symbol]
\* = float(volume_result.quote_volume)" over the listed symbols
CacheVolumes(cache, listed, volumes) ==
  [s \in Symbols |->
     IF s \in listed /\ volumes[s] # <<>> THEN volumes[s]
     ELSE cache[s]]

\* Bot.__init__: _running = False, no task
VolBot__init__ ==
  /\ volBotPc = "none"
  /\ volBotPc' = "init"
  /\ \E v \in MinVolumes : min_24h_volume_usd' = v
  /\ UNCHANGED <<bot_running, vol_symbols, _volume_cache, volTask, volSleep,
                 volRefreshes>>
  /\ UNCHANGED notVolVars

\* Bot.__aenter__ from the volume filter on: _filter_by_volume, then
\* create_task(self._volume_updater())
VolAenter ==
  /\ volBotPc = "init"
  /\ volBotPc' = "entered"
  /\ IF min_24h_volume_usd > 0
     THEN \E volumes \in [Symbols -> VolumeResults] :
            /\ _volume_cache' = CacheVolumes(_volume_cache, Symbols, volumes)
            /\ vol_symbols' = {s \in Symbols :
                                 /\ volumes[s] # <<>>
                                 /\ volumes[s][1] >= min_24h_volume_usd}
            /\ volTask' = "created"
     ELSE UNCHANGED <<_volume_cache, vol_symbols, volTask>>
  /\ UNCHANGED <<bot_running, min_24h_volume_usd, volSleep, volRefreshes>>
  /\ UNCHANGED notVolVars

\* Bot.run: "self._running = True" before its first await
VolRun ==
  /\ volBotPc = "entered"
  /\ volBotPc' = "running"
  /\ bot_running' = TRUE
  /\ UNCHANGED <<min_24h_volume_usd, vol_symbols, _volume_cache, volTask,
                 volSleep, volRefreshes>>
  /\ UNCHANGED notVolVars

\* "while self._running:" of _volume_updater
UpdaterLoops == bot_running

\* the loop test, then the sleep or the end of the task
UpdaterLoopTest ==
  IF UpdaterLoops
  THEN volTask' = "sleep" /\ volSleep' = refresh_minutes
  ELSE volTask' = "done" /\ volSleep' = 0

\* the event loop runs the created task for the first time
VolTaskStart ==
  /\ volTask = "created"
  /\ UpdaterLoopTest
  /\ UNCHANGED <<volBotPc, bot_running, min_24h_volume_usd, vol_symbols,
                 _volume_cache, volRefreshes>>
  /\ UNCHANGED notVolVars

\* a minute of the sleep passes
VolTick ==
  /\ volTask = "sleep"
  /\ volSleep > 0
  /\ volSleep' = volSleep - 1
  /\ UNCHANGED <<volBotPc, bot_running, min_24h_volume_usd, vol_symbols,
                 _volume_cache, volTask, volRefreshes>>
  /\ UNCHANGED notVolVars

\* the sleep is over: the volumes of self.symbols are requested
VolWake ==
  /\ volTask = "sleep"
  /\ volSleep = 0
  /\ volRefreshes < MaxRefreshes
  /\ volTask' = "fetch"
  /\ UNCHANGED <<volBotPc, bot_running, min_24h_volume_usd, vol_symbols,
                 _volume_cache, volSleep, volRefreshes>>
  /\ UNCHANGED notVolVars

\* the gather returned: the cache is refreshed, the loop is tested again
VolFetched ==
  /\ volTask = "fetch"
  /\ \E volumes \in [Symbols -> VolumeResults] :
       _volume_cache' = CacheVolumes(_volume_cache, vol_symbols, volumes)
  /\ volRefreshes' = volRefreshes + 1
  /\ UpdaterLoopTest
  /\ UNCHANGED <<volBotPc, bot_running, min_24h_volume_usd, vol_symbols>>
  /\ UNCHANGED notVolVars

\* Bot.__aexit__: _running = False and the task is cancelled (CancelledError
\* at its await breaks the loop; a task not yet run never runs)
VolAexit ==
  /\ volBotPc \in {"entered", "running"}
  /\ volBotPc' = "exited"
  /\ bot_running' = FALSE
  /\ volTask' = (IF volTask = "none" THEN "none" ELSE "done")
  /\ volSleep' = 0
  /\ UNCHANGED <<min_24h_volume_usd, vol_symbols, _volume_cache,
                 volRefreshes>>
  /\ UNCHANGED notVolVars

InitVol ==
  /\ volBotPc = "none"
  /\ bot_running = FALSE
  /\ min_24h_volume_usd = 0
  /\ vol_symbols = Symbols
  /\ _volume_cache = NoVolumes
  /\ volTask = "none"
  /\ volSleep = 0
  /\ volRefreshes = 0

\* ================================================================== specs
Init == InitBook /\ InitPM /\ InitBot /\ InitLev /\ InitPx /\ InitMode
        /\ InitEm /\ InitStrat /\ InitFill /\ InitVol

Next ==
  \/ VenueUpdate
  \/ Start
  \/ StartTimeout
  \/ StartFetchRequest
  \/ StartFetchOk
  \/ StartFetchFail
  \/ WSConnect
  \/ WSDisconnect
  \/ HandleSubscribe
  \/ HandleUpdate
  \/ ResyncOk
  \/ ResyncFail
  \/ HLBookUpdate

Spec == Init /\ [][Next]_vars

\* the Gate monitor alone
NextGate ==
  \/ VenueUpdate
  \/ Start
  \/ StartTimeout
  \/ StartFetchRequest
  \/ StartFetchOk
  \/ StartFetchFail
  \/ WSConnect
  \/ WSDisconnect
  \/ HandleSubscribe
  \/ HandleUpdate
  \/ ResyncOk
  \/ ResyncFail

SpecGate == Init /\ [][NextGate]_vars

NextPM ==
  \/ PositionManager__init__
  \/ open_position
  \/ OpenLegsDone
  \/ OpenCompDone
  \/ start_monitor
  \/ MonitorTaskStart
  \/ stop_monitor
  \/ MonitorIteration
  \/ MonitorCloseDone
  \/ MonitorCallbackDone
  \/ PriceUpdate
  \/ Tick

SpecPM == Init /\ [][NextPM]_vars

NextBot ==
  \/ Bot__init__
  \/ Bot__aenter__
  \/ RunIteration
  \/ \E s \in Symbols : HandlerStart(s)
  \/ \E s \in Symbols : HandlerAcquire(s)
  \/ \E s \in Symbols : HandlerNetSpread(s)
  \/ BotOpenLegsDone
  \/ BotOpenCompDone
  \/ \E s \in Symbols : HandlerRefreshDone(s)
  \/ MonitorIteration
  \/ MonitorCloseDone
  \/ BotMonitorCallbackDone
  \/ BotPriceUpdate

SpecBot == Init /\ [][NextBot]_vars

NextLev ==
  \/ \E v \in Venues, s \in Symbols, l \in Leverages : set_leverage(v, s, l)
  \/ SetLeverageOk
  \/ SetLeverageFail
  \/ LeverageTick

SpecLev == Init /\ [][NextLev]_vars

NextPx ==
  \/ GatePxStart
  \/ GatePxStartDone
  \/ GatePxConnect
  \/ GatePxDisconnect
  \/ GatePxWake
  \/ GatePxMessage
  \/ HLPxMids

SpecPx == Init /\ [][NextPx]_vars

NextMode ==
  \/ GateClient__init__
  \/ RefreshContracts
  \/ ListAccounts
  \/ ListPositions
  \/ SetDualMode
  \/ ClientStarted

SpecMode == Init /\ [][NextMode]_vars

NextEm ==
  \/ EmMain
  \/ EmInitialize
  \/ EmListGate
  \/ EmListHL
  \/ \E q \in EmPositions : EmAttempt(q)
  \/ EmGathered
  \/ EmCleanup

SpecEm == Init /\ [][NextEm]_vars

NextStrat ==
  \/ ExecuteArbitrage
  \/ StratCloseStart
  \/ StratCloseGathered
  \/ StratCloseBalances

SpecStrat == Init /\ [][NextStrat]_vars

NextFill == EstimateFillPrice

SpecFill == Init /\ [][NextFill]_vars

NextVol ==
  \/ VolBot__init__
  \/ VolAenter
  \/ VolRun
  \/ VolTaskStart
  \/ VolTick
  \/ VolWake
  \/ VolFetched
  \/ VolAexit

SpecVol == Init /\ [][NextVol]_vars

\* The event loop runs the monitor task whenever it is ready (its wait ends
\* on the event or after 100ms), venue calls and the callback return, and
\* time passes.
SpecPMFair ==
  /\ Init
  /\ [][NextPM]_vars
  /\ WF_vars(MonitorTaskStart)
  /\ WF_vars(MonitorIteration)
  /\ WF_vars(MonitorCloseDone)
  /\ WF_vars(MonitorCallbackDone)
  /\ WF_vars(Tick)

\* the Bot with its awaits completing: calculate_net_spread, open_position
\* and the balance refresh return or raise, and a handler waiting at the
\* semaphore is resumed when the permit is free
SpecBotFair ==
  /\ Init
  /\ [][NextBot]_vars
  /\ WF_vars(\E s \in Symbols : HandlerAcquire(s))
  /\ WF_vars(\E s \in Symbols : HandlerNetSpread(s))
  /\ WF_vars(BotOpenLegsDone)
  /\ WF_vars(BotOpenCompDone)
  /\ WF_vars(\E s \in Symbols : HandlerRefreshDone(s))

\* the Gate monitor with the REST call of a resync completing: the request
\* in flight returns, with a snapshot unless it raised
SpecGateFair ==
  /\ Init
  /\ [][NextGate]_vars
  /\ WF_vars(ResyncOk)

\* ================================================================ claims
PricesOf(levels) == {levels[i].price : i \in 1..Len(levels)}

LevelSet(levels) == {<<levels[i].price, levels[i].size>> : i \in 1..Len(levels)}

VenueLevelSet(side) == {<<p, side[p]>> : p \in {q \in Prices : side[q] > 0}}

EntrySet(entries) == {<<entries[i].p, entries[i].s>> : i \in 1..Len(entries)}

SizeAt(levels, p) ==
  IF p \in PricesOf(levels)
  THEN (CHOOSE x \in LevelSet(levels) : x[1] = p)[2]
  ELSE 0

\* The handler last run was _handle_message for an update frame, on a symbol
\* that was not WAITING_SNAPSHOT and had a base id.
LastOnSynced ==
  /\ last.kind = "update"
  /\ last.preState # "waiting"
  /\ last.preBase # <<>>

LastIsGap == LastOnSynced /\ last.msg.U > last.preBase[1] + 1

LastIsInOrder ==
  /\ LastOnSynced
  /\ last.msg.U <= last.preBase[1] + 1
  /\ last.preBase[1] + 1 <= last.msg.u

LastIsStale ==
  /\ last.kind = "update"
  /\ last.preBase # <<>>
  /\ last.msg.u < last.preBase[1] + 1

\* One side of the book after applying `entries` to `before`: every listed
\* price has the listed size (absent when 0), every other price is as before.
SideApplied(before, entries, after) ==
  \A p \in Prices :
    IF \E e \in EntrySet(entries) : e[1] = p
    THEN \A e \in EntrySet(entries) : e[1] = p => SizeAt(after, p) = e[2]
    ELSE SizeAt(after, p) = SizeAt(before, p)

\* C1: a delta [U,u] with U > base_id+1 on a symbol that is not
\* WAITING_SNAPSHOT is never applied to the book; handling it issues exactly
\* one REST snapshot request and, while that request is outstanding, the
\* symbol is SYNCING with its book and base id untouched.
C1_GapResyncsOnce ==
  LastIsGap =>
    /\ restCalls = last.preRest + 1
    /\ last.applied = 0
    /\ (~last.done => /\ book_states = "syncing"
                      /\ orderbooks = last.preBook
                      /\ base_ids = last.preBase)

C1_Witness == LastIsGap /\ last.done /\ book_states = "ready"

\* C2: a delta [U,u] with U <= base_id+1 <= u on a symbol that is not
\* WAITING_SNAPSHOT is applied to the book, base_id becomes u and the state
\* becomes READY.
C2_InOrderApplied ==
  LastIsInOrder =>
    /\ base_ids = <<last.msg.u>>
    /\ book_states = "ready"
    /\ orderbooks # <<>>
    /\ last.preBook # <<>>
    /\ SideApplied(last.preBook[1].bids, last.msg.b, orderbooks[1].bids)
    /\ SideApplied(last.preBook[1].asks, last.msg.a, orderbooks[1].asks)

C2_Witness ==
  /\ LastIsInOrder
  /\ last.msg.u = last.preBase[1] + 1
  /\ orderbooks # last.preBook

\* C3: a delta [U,u] with u < base_id+1 leaves the book, the base id and the
\* state unchanged and requests no snapshot.
C3_StaleDiscarded ==
  LastIsStale =>
    /\ orderbooks = last.preBook
    /\ base_ids = last.preBase
    /\ book_states = last.preState
    /\ restCalls = last.preRest

C3_Witness == LastIsStale /\ last.preState = "ready" /\ last.msg.b # <<>>

\* C4: the monitor's book, as a price-to-size map per side, equals the
\* venue's book at the monitor's base id: a snapshot at b followed by
\* contiguous in-order deltas up to u yields the venue's book at u.
C4_BookMatchesVenue ==
  orderbooks # <<>> =>
    /\ base_ids # <<>>
    /\ LevelSet(orderbooks[1].bids) = VenueLevelSet(hist[base_ids[1]].b)
    /\ LevelSet(orderbooks[1].asks) = VenueLevelSet(hist[base_ids[1]].a)

C4_Witness ==
  /\ LastIsInOrder
  /\ last.applied = 1
  /\ last.preBase[1] >= 2
  /\ orderbooks # last.preBook
  /\ base_ids[1] = last.msg.u

StrictlyDecreasing(levels) ==
  \A i \in 1..(Len(levels) - 1) : levels[i].price > levels[i + 1].price

StrictlyIncreasing(levels) ==
  \A i \in 1..(Len(levels) - 1) : levels[i].price < levels[i + 1].price

WellFormedBook(book) ==
  /\ StrictlyDecreasing(book.bids)
  /\ StrictlyIncreasing(book.asks)
  /\ (book.bids # <<>> /\ book.asks # <<>>) => book.bids[1].price < book.asks[1].price

\* C5: every book a reader can obtain from either orderbook monitor has bids
\* strictly decreasing in price, asks strictly increasing and, when both
\* sides are non-empty, best bid below best ask.
C5_BooksWellFormed ==
  /\ orderbooks # <<>> => WellFormedBook(orderbooks[1])
  /\ hlOrderbooks # <<>> => WellFormedBook(hlOrderbooks[1])

C5_Witness ==
  /\ lastApplied # <<>>
  /\ orderbooks # <<>>
  /\ Len(orderbooks[1].bids) >= 2
  /\ orderbooks[1].asks # <<>>
  /\ hlOrderbooks # <<>>
  /\ hlOrderbooks[1].bids # <<>>

\* C6 as stated: after _apply_update processed an entry with size 0 at price
\* p, no level with price p remains on either side of the book.
C6_ZeroRemovesBothSides ==
  (lastApplied # <<>> /\ orderbooks # <<>>) =>
    \A e \in EntrySet(lastApplied[1].b) \cup EntrySet(lastApplied[1].a) :
      e[2] = 0 => e[1] \notin PricesOf(orderbooks[1].bids)
                               \cup PricesOf(orderbooks[1].asks)

\* C6 amended: after _apply_update processed an entry with size 0 at price p
\* listed under bids, no bid level with price p remains; listed under asks,
\* no ask level with price p remains.
C6_ZeroRemovesListedSide ==
  (lastApplied # <<>> /\ orderbooks # <<>>) =>
    /\ \A e \in EntrySet(lastApplied[1].b) :
         e[2] = 0 => e[1] \notin PricesOf(orderbooks[1].bids)
    /\ \A e \in EntrySet(lastApplied[1].a) :
         e[2] = 0 => e[1] \notin PricesOf(orderbooks[1].asks)

C6_Witness ==
  /\ lastApplied # <<>>
  /\ orderbooks # <<>>
  /\ last.applied = 1
  /\ last.preBook # <<>>
  /\ \E e \in EntrySet(lastApplied[1].b) :
       e[2] = 0 /\ e[1] \in PricesOf(last.preBook[1].bids)

\* ------------------------------------------------- position manager claims
\* a leg order that actually filled on its venue
LegFilled(result) == ~result.exc /\ result.order.status = "filled"

\* the orders one open_position / close_position call sent to one venue
OrdersFor(venue, pid) ==
  LET sent == {o \in DOMAIN orders : o.venue = venue /\ o.pid = pid}
  IN [o \in sent |-> orders[o]]

ReversingOrder(venue, order, pid) ==
  Submitted(venue, IF order.side = "long" THEN "sell" ELSE "buy", order.size, pid)

Compensated(r, filledVenue, failedVenue, order) ==
  /\ r.ret = "None"
  /\ r.position_id \notin PositionIds(positions)
  /\ BagCardinality(OrdersFor(filledVenue, r.position_id)) = 2
  /\ BagIn(ReversingOrder(filledVenue, order, r.position_id), orders)
  /\ BagCardinality(OrdersFor(failedVenue, r.position_id)) = 1

\* C7: whenever open_position has returned from a call in which exactly one
\* leg order filled and the other failed, it returned None without storing a
\* position, the filled venue received exactly one further order, reversing
\* the filled order at its size, and the failed venue received nothing beyond
\* its opening order.
C7_OneLegCompensated ==
  \A r \in openLog :
    /\ (LegFilled(r.gate) /\ ~LegFilled(r.hl)) =>
         Compensated(r, "gate", "hl", r.gate.order)
    /\ (LegFilled(r.hl) /\ ~LegFilled(r.gate)) =>
         Compensated(r, "hl", "gate", r.hl.order)

\* C8: every stored position holds two leg orders with status FILLED.
C8_StoredLegsFilled ==
  \A i \in 1..Len(positions) :
    /\ positions[i].gate_order.status = "filled"
    /\ positions[i].hl_order.status = "filled"

\* C9: once close_position has returned for a stored position, its id is not
\* in the positions map, whichever of the two closing orders raised.
C9_ClosedIsRemoved ==
  \A c \in closeLog : c.position_id \notin PositionIds(positions)

\* a close has returned with exactly one closing order raised
C9_Witness ==
  \E c \in closeLog :
    /\ c.gate_exc # c.hl_exc
    /\ c.position_id \notin PositionIds(positions)

\* C10: with a completion callback set, every returned close of a position
\* opened with both legs filled has had the callback invoked exactly once,
\* whether or not both closing orders succeeded.
C10_CallbackAfterEachClose ==
  on_position_closed =>
    \A c \in closeLog :
      (\E r \in openLog : /\ r.position_id = c.position_id
                          /\ LegFilled(r.gate)
                          /\ LegFilled(r.hl))
        => CopiesIn(c.position_id, callbackLog) = 1

\* ------------------------------------------------- close-condition claims
SpreadKnown(symbol) ==
  /\ ~NotPrice(get_price(gate_price, symbol))
  /\ ~NotPrice(get_price(hl_price, symbol))

TakeProfitReached(position) ==
  20000 * Abs(gate_price[position.symbol] - hl_price[position.symbol])
    <= position.mode.target_spread_pct
         * (gate_price[position.symbol] + hl_price[position.symbol])

StopLossReached(position) ==
  20000 * Abs(gate_price[position.symbol] - hl_price[position.symbol])
    >= (position.entry_spread_pct + position.mode.stop_loss_pct)
         * (gate_price[position.symbol] + hl_price[position.symbol])

Elapsed(position) == Now - position.open_time

\* the monitor has the close of id on its list, or is running it
Scheduled(id, reason) ==
  \/ monPc = "closing" /\ closeCall.position_id = id /\ closeCall.reason = reason
  \/ \E j \in 1..Len(positions_to_close) :
       positions_to_close[j] = [position_id |-> id, reason |-> reason]

PriorityDecision(position) ==
  IF TakeProfitReached(position) THEN "TP"
  ELSE IF StopLossReached(position) THEN "SL"
  ELSE IF Elapsed(position) >= position.mode.timeout_minutes THEN "Timeout"
  ELSE ""

\* C12: at every monitor iteration, a stored position whose spread is known
\* is scheduled for closing with the reason the priority take-profit, then
\* stop-loss, then timeout gives, and is not scheduled when none applies.
C12_ClosePriority ==
  [][MonitorIteration =>
       \A i \in 1..Len(positions) :
         LET position == positions[i] IN
         SpreadKnown(position.symbol) =>
           \A reason \in {"TP", "SL", "Timeout"} :
             Scheduled(position.position_id, reason)'
               <=> (reason = PriorityDecision(position))]_vars

\* a position past its timeout whose spread is at take-profit (or at
\* stop-loss) is being closed for the spread, not for the timeout
C12_Witness ==
  \E i \in 1..Len(positions) :
    /\ SpreadKnown(positions[i].symbol)
    /\ Elapsed(positions[i]) >= positions[i].mode.timeout_minutes
    /\ \/ /\ TakeProfitReached(positions[i])
          /\ Scheduled(positions[i].position_id, "TP")
       \/ /\ StopLossReached(positions[i])
          /\ Scheduled(positions[i].position_id, "SL")
\* --------------------------------------------------------------- Bot claims
PositionsOf(symbol) ==
  {i \in 1..Len(positions) : positions[i].symbol = symbol}

\* C13: the positions map never holds two positions of one symbol, and the
\* Bot's handler for a symbol calls open_position only while no position of
\* that symbol is stored.
C13_OnePositionPerSymbol ==
  /\ [](\A s \in Symbols : Cardinality(PositionsOf(s)) <= 1)
  /\ [][\A s \in Symbols :
          (handlerPc[s] = "net" /\ handlerPc'[s] = "open")
            => PositionsOf(s) = {}]_vars

\* a handler has just ended at the position check of a symbol whose position
\* is stored, while the other symbol has none
C13_Witness ==
  \E s \in Symbols :
    /\ handlerPc[s] = "position"
    /\ PositionsOf(s) # {}
    /\ \E t \in Symbols : PositionsOf(t) = {}

\* C14: the Bot's local available balance on each venue is never negative.
C14_BalancesNonNegative ==
  /\ gate_balance # <<>> => gate_balance[1] >= 0
  /\ hyperliquid_balance # <<>> => hyperliquid_balance[1] >= 0
\* ---------------------------------------------------------- leverage claims
\* C15: a set_leverage(s, L) call made while the last call for s that
\* reached the venue was a successful update to the same L, less than
\* leverage_cache_ttl ago, sends no request to the venue: the two calls
\* together sent exactly one.
C15_SecondCallSendsNothing ==
  [][\A v \in Venues, s \in Symbols, l \in Leverages :
       (/\ set_leverage(v, s, l)
        /\ levLast[v][s] # <<>>
        /\ levLast[v][s][1].ok
        /\ levLast[v][s][1].leverage = l
        /\ Now - levLast[v][s][1].time < leverage_cache_ttl)
         => (levRequests' = levRequests /\ levInFlight' = levInFlight)]_vars

\* two calls were made for one symbol and leverage, some time apart but
\* within the ttl, and one request was sent in all
C15_Witness ==
  /\ levCalls = 2
  /\ levRequests = 1
  /\ levInFlight = EmptyBag
  /\ \E v \in Venues, s \in Symbols :
       /\ levLast[v][s] # <<>>
       /\ levLast[v][s][1].ok
       /\ levLast[v][s][1].time = Now - LeverageStep

\* C16 (as stated): get_raw_spread(symbol) returns None if and only if at
\* least one of the two price monitors has no price entry for the symbol.
\* Refuted: a Gate ticker without 'last' is stored as the entry 0.0, and
\* "not gate_price" is true of it.
C16_NoneIffNoEntry ==
  \A s \in Symbols :
    (get_raw_spread(s) = <<>>)
      <=> (~has_price(gate_price, s) \/ ~has_price(hl_price, s))

\* C16 (amended): get_raw_spread(symbol) returns None if and only if at
\* least one of the two price monitors has no price entry for the symbol or
\* holds the price 0.0 for it; whenever both monitors hold a non-zero price
\* it returns a RawSpread carrying these two prices.
C16_NoneIffNoEntryOrZero ==
  \A s \in Symbols :
    /\ (get_raw_spread(s) = <<>>)
         <=> \/ s \notin DOMAIN gate_price
             \/ s \notin DOMAIN hl_price
             \/ gate_price[s] = 0
             \/ hl_price[s] = 0
    /\ get_raw_spread(s) # <<>> =>
         /\ get_raw_spread(s)[1].gate_price = gate_price[s]
         /\ get_raw_spread(s)[1].hl_price = hl_price[s]

\* one symbol with two non-zero prices and a RawSpread, another whose Gate
\* entry is 0.0 and for which None is returned
C16_Witness ==
  \E s, t \in Symbols :
    /\ has_price(gate_price, s) /\ has_price(hl_price, s)
    /\ gate_price[s] # 0
    /\ get_raw_spread(s) # <<>>
    /\ has_price(gate_price, t) /\ has_price(hl_price, t)
    /\ gate_price[t] = 0
    /\ get_raw_spread(t) = <<>>

\* C17: once has_price(s) is true for a symbol it stays true in every later
\* state, in both monitors; the steps of the connection (connect, disconnect,
\* error, sleep, reconnect) leave every entry of the price maps as it was.
C17_PricesNeverCleared ==
  /\ [][\A s \in Symbols :
          /\ has_price(gate_price, s) => has_price(gate_price', s)
          /\ has_price(hl_price, s) => has_price(hl_price', s)]_vars
  /\ [][pxWsPc' # pxWsPc =>
          gate_price' = gate_price /\ hl_price' = hl_price]_vars

\* an outage after prices arrived: the loop sleeps before reconnecting and
\* both maps still hold the symbol
C17_Witness ==
  /\ pxWsPc = "sleeping"
  /\ \E s \in Symbols : has_price(gate_price, s) /\ has_price(hl_price, s)

\* C18 (as stated): the price monitor's ready latch is set only after at
\* least one price batch has been applied to the price map, so whenever
\* start() has returned successfully the price map contains prices.
\* Refuted: the acknowledgement of the subscription sets the latch, and so
\* does an update without tickers.
C18_ReadyImpliesPrices ==
  (gate_px_is_ready \/ pxStartPc = "returned") => DOMAIN gate_price # {}

\* C18 (amended): the Gate price monitor's ready latch is set only while a
\* futures.tickers message is handled on an open connection, either a
\* subscribe acknowledgement without error or an update whose tickers all
\* parsed, and start() returns successfully only with the latch set; the
\* price map may still be empty then.
C18_ReadyAfterAckOrUpdate ==
  /\ [][(~gate_px_is_ready /\ gate_px_is_ready') =>
          /\ pxWsPc = "connected"
          /\ pxLast'.event \in {"subscribe", "update"}
          /\ ~pxLast'.error]_vars
  /\ [](pxStartPc = "returned" => gate_px_is_ready)

\* start() returned on the acknowledgement alone, before any price
C18_Witness ==
  /\ pxStartPc = "returned"
  /\ gate_px_is_ready
  /\ pxLast = [event |-> "subscribe", error |-> FALSE]
  /\ DOMAIN gate_price = {}

RECURSIVE Pow2(_)
Pow2(k) == IF k = 0 THEN 1 ELSE 2 * Pow2(k - 1)

\* C19 (as stated): after every WS disconnect or error the monitor waits its
\* current reconnect delay before reconnecting; the delay starts at 1s,
\* doubles after each consecutive failed attempt, never exceeds 60s, and
\* returns to 1s after a successful connection.
C19_ReconnectBackoff ==
  /\ [](_reconnect_delay <= _max_reconnect_delay)
  /\ [](pxWsPc = "connected" => _reconnect_delay = 1)
  /\ [](pxWsPc = "connecting" =>
          _reconnect_delay = Min(Pow2(pxFailures), _max_reconnect_delay))
  /\ [][(pxWsPc \in {"connecting", "connected"} /\ pxWsPc' # pxWsPc
           /\ pxWsPc' # "connected") =>
          /\ pxWsPc' = "sleeping"
          /\ pxSleep' # <<>>
          /\ pxSleep'[1].delay = _reconnect_delay]_vars

\* C20 (as stated): when a REST snapshot fetch fails during an order-book
\* resync, the monitor retries the fetch for that symbol, making at most 5
\* attempts per resync before giving up: a resync is never abandoned on a
\* failed fetch after a single attempt, and never makes more than 5.
C20_FetchRetried ==
  /\ [](wsPc = "resync" => restCalls - last.preRest <= 5)
  /\ [][(wsPc = "resync" /\ wsPc' = "open" /\ book_states' = "waiting") =>
          (restCalls - last.preRest) \in 2..5]_vars

\* C21: Gate client startup never switches the account position mode while
\* any position has non-zero size: if the current mode differs from the
\* configured mode and an open position exists, startup fails with an error
\* and no mode-change request is sent; if the modes already agree no
\* mode-change request is sent.
C21_NoSwitchWithOpenPosition ==
  /\ (account # <<>> /\ CurrentDual(account[1]) = dual_mode) =>
       dualModeRequests = <<>>
  /\ (venue_positions # <<>>
       /\ \E i \in 1..Len(venue_positions[1]) : venue_positions[1][i] # 0) =>
       /\ startupPc = "failed"
       /\ dualModeRequests = <<>>
  /\ dualModeRequests # <<>> =>
       /\ dualModeRequests = <<dual_mode>>
       /\ CurrentDual(account[1]) # dual_mode

\* the modes differ, the account lists a flat position before an open one,
\* and startup has failed
C21_Witness ==
  /\ startupPc = "failed"
  /\ account # <<>> /\ CurrentDual(account[1]) # dual_mode
  /\ venue_positions = <<(<<0, 1>>)>>

\* C22 (as stated): the emergency close-all utility exits with code 0 if and
\* only if the close of every live position on both venues succeeded; if
\* any close ultimately fails it exits non-zero.
\* Refuted in the "if" half: a listing, the start or the stop of the
\* exchanges that raises ends in a non-zero exit though no close failed.
C22_ExitZeroIffAllClosed ==
  emPc = "exited" =>
    /\ (exitCode = <<0>>) <=> (\A q \in emLive : q \in emClosedOk)
    /\ failed_closes # {} => exitCode # <<0>>

\* C22 (amended): the utility exits with code 0 if and only if the exchanges
\* started, both venues' position listings succeeded, the close of every
\* live position succeeded and the exchanges stopped without an error; if
\* any close ultimately fails it exits non-zero.
C22_ExitZeroIffNoErrorAndAllClosed ==
  emPc = "exited" =>
    /\ (exitCode = <<0>>) <=>
         (emErrors = {} /\ \A q \in emLive : q \in emClosedOk)
    /\ failed_closes # {} => exitCode # <<0>>

\* both exits after closes: all live positions closed on a retry, and one
\* close that failed to the end
C22_Witness ==
  /\ emPc = "exited"
  /\ emLive = EmPositions
  /\ emErrors = {}
  /\ \/ exitCode = <<0>> /\ \E q \in emLive : emAttempts[q] > 1
     \/ exitCode = <<1>> /\ failed_closes # {} /\ emClosedOk # {}

\* C23: each live position's close is attempted at most 5 times; a position
\* is recorded in failed_closes only after all 5 attempts failed, and a
\* close that succeeded on any attempt is never recorded as failed.
C23_AtMostFiveAttempts ==
  \A q \in EmPositions :
    /\ emAttempts[q] <= 5
    /\ q \in failed_closes => emAttempts[q] = 5 /\ q \notin emClosedOk
    /\ q \in emClosedOk => q \notin failed_closes

\* one position failed five times, the other succeeded on its fifth attempt
C23_Witness ==
  \E q, r \in EmPositions :
    /\ q \in failed_closes /\ emAttempts[q] = 5
    /\ r \in emClosedOk /\ emAttempts[r] = 5

\* C24 (as stated): after a position close in which at least one of the two
\* closing leg orders failed, the bot opens no new position (no operator
\* action exists in the program, so none at all).
C24_NoOpenAfterFailedClose ==
  [][close_failed =>
       ~\E s \in Symbols : handlerPc[s] = "net" /\ handlerPc'[s] = "open"]_vars

\* C25 (as stated): in ArbitrageStrategy._close_position, when the close of
\* either leg fails (returns success=False or raises), the position remains
\* in active_positions and nothing is appended to closed_positions.
C25_FailedCloseKeepsPosition ==
  (stratLast # NoStratClose
   /\ (stratLast.buy # "success" \/ stratLast.sell # "success")) =>
    /\ stratLast.position_id \in DOMAIN active_positions
    /\ closed_positions = stratLast.closed

\* C26 (as stated): for every size >= 0 and side, estimate_fill_price either
\* returns a volume-weighted average price or fails with OrderError, which
\* it does when the relevant book side is empty; no other error kind
\* escapes, including when the requested size is 0.
C26_PriceOrOrderError ==
  fillResult # <<>> =>
    /\ fillResult[1].kind \in {"price", "OrderError"}
    /\ Len(fillCall[1].levels) = 0 => fillResult[1].kind = "OrderError"

\* C27 (as stated): the Bot's open semaphore is not held while a
\* partial-failure compensating order is in flight: whenever PositionManager
\* is submitting the compensating close for a half-opened position, the
\* semaphore permit is free.
C27_SemaphoreFreeDuringCompensation ==
  openPc = "comp" => _position_semaphore = 1

\* handlers inside the critical section of _handle_min_spread_mode
InCriticalSection ==
  {s \in Symbols :
     handlerPc[s] \in {"net", "open", "refresh", "refresh compensated"}}

\* C28: at most one open attempt (the two leg submissions plus any
\* compensation) is in flight at any time, so at most one for a given symbol:
\* a handler that is about to call open_position finds no attempt in flight,
\* an attempt in flight belongs to the one handler that holds the permit,
\* and a new iteration starts only when every handler has ended.
C28_OneOpenAttemptInFlight ==
  /\ [](\A s \in Symbols : handlerPc[s] = "net" => openPc = "idle")
  /\ [](openPc \in {"legs", "comp"} =>
          /\ InCriticalSection = {openCall.symbol}
          /\ handlerPc[openCall.symbol] = "open"
          /\ _position_semaphore = 0)
  /\ [][(\E s \in Symbols : handlerPc[s] # "start" /\ handlerPc'[s] = "start")
          => openPc = "idle" /\ InCriticalSection = {}]_vars

\* an open attempt of one symbol is in flight while the handler of the other
\* symbol waits for the permit, in a later iteration of the main loop
C28_Witness ==
  /\ openPc = "legs"
  /\ nextId > 1
  /\ \E s \in Symbols : s # openCall.symbol /\ handlerPc[s] = "sem"

\* ---------------------------------------------------------- orders in flight
\* the two opening legs, from their launch to the return of the gather
OpenLegsInFlight(venue, symbol) ==
  IF openPc = "legs" /\ openCall.symbol = symbol
  THEN {IF venue = "gate" THEN GateOpenOp(openCall.direction)
                          ELSE HLOpenOp(openCall.direction)}
  ELSE {}

\* the compensating order of a half-opened position, on the venue whose leg
\* filled
CompensationInFlight(venue, symbol) ==
  IF openPc = "comp" /\ openCall.symbol = symbol
  THEN IF venue = "gate" /\ ~LegFailed(openCall.gate) /\ LegFailed(openCall.hl)
       THEN {CompensationOp(openCall.gate.order)}
       ELSE IF venue = "hl" /\ ~LegFailed(openCall.hl)
                            /\ LegFailed(openCall.gate)
       THEN {CompensationOp(openCall.hl.order)}
       ELSE {}
  ELSE {}

\* the two reversing orders of close_position, from their launch to the
\* return of the gather (the position is still stored)
CloseInFlight(venue, symbol) ==
  IF monPc = "closing"
     /\ PositionOf(positions, closeCall.position_id).symbol = symbol
  THEN {IF venue = "gate" THEN GateCloseOp(closeCall.direction)
                          ELSE HLCloseOp(closeCall.direction)}
  ELSE {}

InFlight(venue, symbol) ==
  OpenLegsInFlight(venue, symbol) \cup CompensationInFlight(venue, symbol)
    \cup CloseInFlight(venue, symbol)

\* C29: on each venue the engine never has a buy order and a sell order of
\* one symbol in flight at the same time, whatever the interleaving of open
\* attempts, compensating orders and the monitor's closes.
C29_NoOpposingOrdersInFlight ==
  \A venue \in {"gate", "hl"}, s \in Symbols :
    ~({"buy", "sell"} \subseteq InFlight(venue, s))

\* a close of one symbol is in flight, that symbol's handler has just ended
\* at the position check, and the opening legs of the other symbol are in
\* flight on the same venues
C29_Witness ==
  \E s \in Symbols, t \in Symbols :
    /\ s # t
    /\ CloseInFlight("gate", s) # {}
    /\ handlerPc[s] = "position"
    /\ OpenLegsInFlight("gate", t) # {}
    /\ InFlight("gate", s) \cup InFlight("gate", t) = {"buy", "sell"}

\* ------------------------------------------------------------ monitor claims
\* ids of the positions a scan of the map ps decides to close, in dict order
DecidedCloses(ps) ==
  LET due == SelectSeq(ps, LAMBDA x : _check_close_conditions(x) # "")
  IN [i \in 1..Len(due) |-> due[i].position_id]

\* ids of the closes of the running iteration that are in flight or to come
PlannedCloses ==
  (IF monPc = "closing" THEN <<closeCall.position_id>> ELSE <<>>)
    \o [i \in 1..Len(positions_to_close) |-> positions_to_close[i].position_id]

StoredIds == {positions[i].position_id : i \in 1..Len(positions)}

\* C30: the monitor decides the closes of an iteration on the positions map
\* as it is when the iteration starts and performs them one after another:
\* the first close launched and the ones left to do are the scan's decisions
\* in order; within the iteration a close is launched only when the previous
\* one has returned and it is the next of the list, and the iteration ends
\* only with the list used up; a position added meanwhile changes neither the
\* close in flight nor the list, whose entries all stay stored until closed.
C30_SequentialClosesOnSnapshot ==
  /\ [][(monPc = "wait" /\ monPc' = "closing")
          => PlannedCloses' = DecidedCloses(positions)]_vars
  /\ [][(monPc \in {"closing", "callback"}
         /\ <<monPc, closeCall, positions_to_close>>'
              # <<monPc, closeCall, positions_to_close>>)
          => \/ /\ monPc = "closing"
                /\ monPc' = "callback"
                /\ closeCall.position_id \notin StoredIds'
                /\ positions_to_close' = positions_to_close
             \/ /\ monPc' = "closing"
                /\ closeCall.position_id \notin StoredIds'
                /\ positions_to_close # <<>>
                /\ PlannedCloses'
                     = [i \in 1..Len(positions_to_close) |->
                          positions_to_close[i].position_id]
             \/ /\ monPc' \in {"wait", "done"}
                /\ closeCall.position_id \notin StoredIds'
                /\ positions_to_close = <<>>
                /\ positions_to_close' = <<>>]_vars
  /\ [][Len(positions') > Len(positions)
          => /\ <<monPc, closeCall, positions_to_close>>'
                  = <<monPc, closeCall, positions_to_close>>
             /\ PlannedCloses' = PlannedCloses]_vars
  /\ [](/\ \A i \in 1..Len(PlannedCloses) : PlannedCloses[i] \in StoredIds
        /\ \A i \in 1..Len(PlannedCloses), j \in 1..Len(PlannedCloses) :
             PlannedCloses[i] = PlannedCloses[j] => i = j)

\* a close is in flight and the map holds a position that was added after
\* the iteration's scan (the event open_position sets is still set) and that
\* is not among the iteration's closes
C30_Witness ==
  /\ monPc = "closing"
  /\ check_event
  /\ \E i \in 1..Len(positions) :
       /\ positions[i].position_id > closeCall.position_id
       /\ \A j \in 1..Len(PlannedCloses) :
            PlannedCloses[j] # positions[i].position_id

\* ------------------------------------------------------------- open claims
\* both local balances are known and cover the position size
BalancesCover(size_usdt) ==
  /\ gate_balance # <<>> /\ gate_balance[1] >= size_usdt
  /\ hyperliquid_balance # <<>> /\ hyperliquid_balance[1] >= size_usdt

\* C31: the Bot calls open_position for a symbol only from a handler that
\* holds the permit and passed the checks of that attempt: when the handler
\* went on to calculate_net_spread both local balances were at least
\* usd_size_per_pos (and no position of the symbol was stored), and the call
\* is made with the net spread of the best direction, which is at least the
\* entry threshold.
C31_OpenOnlyAfterChecks ==
  /\ [][\A s \in Symbols :
          (handlerPc[s] # "net" /\ handlerPc'[s] = "net")
            => /\ handlerPc[s] \in {"start", "sem"}
               /\ BalancesCover(Mode.usd_size_per_pos)
               /\ PositionsOf(s) = {}
               /\ _position_semaphore = 1
               /\ _position_semaphore' = 0]_vars
  /\ [][\A s \in Symbols :
          (handlerPc[s] # "open" /\ handlerPc'[s] = "open")
            => /\ handlerPc[s] = "net"
               /\ _position_semaphore = 0
               /\ openPc = "idle" /\ openPc' = "legs"
               /\ openCall'.symbol = s
               /\ openCall'.size = Mode.usd_size_per_pos
               /\ openCall'.entry_spread_pct >= Mode.percentage]_vars
  /\ [][(openPc # "legs" /\ openPc' = "legs")
          => \E s \in Symbols :
               handlerPc[s] = "net" /\ handlerPc'[s] = "open"]_vars

\* the second open attempt of a run is in flight: its balance check passed on
\* balances already debited by the first position
C31_Witness ==
  \E s \in Symbols :
    /\ handlerPc[s] = "open"
    /\ openPc = "legs"
    /\ openCall.symbol = s
    /\ openCall.entry_spread_pct >= Mode.percentage
    /\ gate_balance[1] < 150
    /\ BalancesCover(Mode.usd_size_per_pos)

\* ----------------------------------------------------------- volume claims
\* C32 (as stated): with min_24h_volume_usd > 0 the refresh task created at
\* startup is alive (about to run, sleeping its 5 minutes or fetching) for
\* as long as the bot is running, whenever the task was first scheduled.
C32_RefreshTaskAlive ==
  (volBotPc = "running" /\ min_24h_volume_usd > 0)
    => volTask \in {"created", "sleep", "fetch"}

\* ------------------------------------------------ snapshot and buffer claims
\* the updates buffered for the symbol
Buffered == IF update_queues = <<>> THEN <<>> ELSE update_queues[1]

\* the book a snapshot taken at update id b installs
SnapshotBook(b) ==
  <<[bids |-> VenueSnapshot(b).bids, asks |-> VenueSnapshot(b).asks]>>

RECURSIVE ApplyInOrder(_, _)
ApplyInOrder(books, deltas) ==
  IF deltas = <<>> THEN books
  ELSE ApplyInOrder(_apply_update(books, Head(deltas)), Tail(deltas))

\* every delta of the run continues the sequence: U <= base_id+1 <= u with
\* base_id the snapshot's id b for the first and its predecessor's u after
Contiguous(b, deltas) ==
  \A j \in 1..Len(deltas) :
    LET base == IF j = 1 THEN b ELSE deltas[j - 1].u
    IN deltas[j].U <= base + 1 /\ base + 1 <= deltas[j].u

EndBase(b, deltas) == IF deltas = <<>> THEN b ELSE deltas[Len(deltas)].u

\* books and base are what a snapshot at b gives with the buffer q: the
\* first k deltas are stale (u < b+1) and dropped, the next n continue the
\* sequence from b+1 and are applied in order, and the one after them, if
\* any, does not continue it
DrainedFrom(q, b, books, base) ==
  \E k \in 0..Len(q), n \in 0..Len(q) :
    /\ k + n <= Len(q)
    /\ \A j \in 1..k : q[j].u < b + 1
    /\ LET run == SubSeq(q, k + 1, k + n) IN
       /\ Contiguous(b, run)
       /\ (k + n < Len(q) => q[k + n + 1].U > EndBase(b, run) + 1)
       /\ books = ApplyInOrder(SnapshotBook(b), run)
       /\ base = <<EndBase(b, run)>>

\* a step in which _fetch_snapshot installs its snapshot
SnapshotInstalled ==
  \/ startPc = "fetching" /\ startPc' = "done" /\ book_states' = "ready"
  \/ wsPc = "resync" /\ wsPc' = "open" /\ book_states' = "ready"

C34_StopEndsMonitor ==
  stop_called => ~(running /\ monPc \in {"wait", "closing", "callback"})

\* the same, as termination under fair scheduling of the monitor task
C34_StopLeadsToDone == stop_called ~> (monPc = "done")

\* after the call the task starts the close of a position
C34_ClosesAfterStop ==
  [][stop_called /\ running => ~(monPc = "wait" /\ monPc' = "closing")]_vars

\* ------------------------------------------------------ contiguity claims
\* a step in which _handle_message takes a delta from the socket
DeltaRead == wsPc = "open" /\ wsNext' # wsNext

\* books and base are a snapshot at b with a run of buffered deltas applied
\* on top of it, each continuing the sequence from its predecessor
AppliedContiguously(q, b, books, base) ==
  \E k \in 0..Len(q), n \in 0..Len(q) :
    /\ k + n <= Len(q)
    /\ LET run == SubSeq(q, k + 1, k + n) IN
       /\ Contiguous(b, run)
       /\ books = ApplyInOrder(SnapshotBook(b), run)
       /\ base = <<EndBase(b, run)>>

\* C35: a delta [U,u] read from the socket changes the book or the base id
\* only if U <= base_id+1 <= u held for the base id before the step, and the
\* base id becomes u; the book and base id a snapshot install leaves are the
\* snapshot with buffered deltas applied each of which satisfied
\* U <= base_id+1 <= u for the base id its predecessor left; and on every
\* step that is not a snapshot install an existing base id does not decrease.
C35_ContiguousApplication ==
  /\ [][(DeltaRead /\ (orderbooks' # orderbooks \/ base_ids' # base_ids))
          => LET delta == VenueDelta(wsNext, wsNext' - 1) IN
             /\ base_ids # <<>>
             /\ delta.U <= base_ids[1] + 1
             /\ base_ids[1] + 1 <= delta.u
             /\ base_ids' = <<delta.u>>
             /\ orderbooks' = _apply_update(orderbooks, delta)]_vars
  /\ [][SnapshotInstalled
          => \E b \in 1..Len(hist) :
               AppliedContiguously(Buffered, b, orderbooks', base_ids')]_vars
  /\ [][(~SnapshotInstalled /\ base_ids # <<>>)
          => /\ base_ids' # <<>>
             /\ base_ids'[1] >= base_ids[1]]_vars

\* a delta that starts below base_id+1 and ends above it was applied on the
\* live path of a READY symbol
C35_Witness ==
  /\ last.kind = "update"
  /\ last.applied = 1
  /\ last.preState = "ready"
  /\ last.preBase # <<>>
  /\ last.msg.U <= last.preBase[1]
  /\ last.msg.u > last.preBase[1]
  /\ base_ids = <<last.msg.u>>

\* C36: a symbol that left READY because a gap was detected returns to
\* READY, provided snapshot requests eventually succeed and deltas keep
\* arriving: it does not stay SYNCING or WAITING_SNAPSHOT for ever.
C36_ReturnsToReady == (book_states = "syncing") ~> (book_states = "ready")

\* a resync ends one way or the other
C36_ResyncEnds ==
  (book_states = "syncing") ~> (book_states \in {"ready", "waiting"})

\* once a symbol that had a book is WAITING_SNAPSHOT it stays so on every
\* step, whatever arrives: the deltas are buffered and nothing requests a
\* snapshot
C36_WaitingIsAbsorbing ==
  [][(base_ids # <<>> /\ book_states = "waiting")
       => (book_states' = "waiting" /\ wsPc' # "resync"
           /\ orderbooks' = orderbooks)]_vars

\* a gap was detected for the symbol and no snapshot has been installed
\* since: the resync is in flight, or it failed
GapPending ==
  \/ book_states = "syncing"
  \/ book_states = "waiting" /\ base_ids # <<>>

\* C37: from the detection of a sequence gap until a fresh snapshot is
\* installed, a reader of the local book is not given the symbol's book from
\* before the gap: get_orderbook has no book to return, so
\* estimate_fill_price goes to REST.
C37_NoStaleBookServed == GapPending => get_orderbook = <<>>

\* ------------------------------------------------- leverage cache claims
\* a step in which a venue call of set_leverage came back
LeverageCallReturned(v, s) ==
  /\ levInFlight' # levInFlight
  /\ levRequests' = levRequests
  /\ levLast'[v][s] # levLast[v][s]

\* C38: a set_leverage(s, L) call sends no request to the venue only if the
\* last update of s the venue accepted set exactly L less than
\* leverage_cache_ttl ago, whatever calls with other leverages and failed
\* calls came before; the cache entry of a symbol is at all times the last
\* update the venue accepted for it, and a venue call that fails leaves the
\* cache as it was.
C38_SkipOnlyOnLastSuccess ==
  /\ [][\A v \in Venues, s \in Symbols, l \in Leverages :
          (set_leverage(v, s, l) /\ levRequests' = levRequests)
            => /\ levLastOk[v][s] # <<>>
               /\ levLastOk[v][s][1].leverage = l
               /\ Now - levLastOk[v][s][1].time < leverage_cache_ttl]_vars
  /\ [](_leverage_cache = levLastOk)
  /\ [][\A v \in Venues, s \in Symbols :
          (LeverageCallReturned(v, s) /\ ~levLast'[v][s][1].ok)
            => _leverage_cache' = _leverage_cache]_vars

\* a symbol's leverage was set, a call with another leverage for it failed
\* at the venue, and a third call with the first leverage sent nothing
C38_Witness ==
  /\ levCalls = 3
  /\ levRequests = 2
  /\ levInFlight = EmptyBag
  /\ \E v \in Venues, s \in Symbols :
       /\ levLast[v][s] # <<>>
       /\ ~levLast[v][s][1].ok
       /\ levLastOk[v][s] # <<>>
       /\ levLastOk[v][s][1].leverage # levLast[v][s][1].leverage
       /\ _leverage_cache[v][s] = levLastOk[v][s]

\* ------------------------------------------------------ closing order claims
\* orders submitted on a venue for a position id with the given operation
OrdersSubmitted(venue, op, id) ==
  LET S == {o \in BagToSet(orders) :
              o.venue = venue /\ o.op = op /\ o.pid = id}
  IN BagCardinality([o \in S |-> CopiesIn(o, orders)])

\* C39: for every position that was stored, at most one closing order (the
\* reverse of its opening leg) is ever submitted on each venue, whatever the
\* interleaving of monitor iterations, open attempts and the completion
\* callback; a close is launched only for a position that is still stored
\* and for which no close has returned.
C39_AtMostOneClosingPair ==
  /\ [](\A r \in openLog :
          r.ret = "position" =>
            /\ OrdersSubmitted("gate", CompensationOp(r.gate.order),
                               r.position_id) <= 1
            /\ OrdersSubmitted("hl", CompensationOp(r.hl.order),
                               r.position_id) <= 1)
  /\ [][(monPc' = "closing" /\ (monPc # "closing" \/ closeCall' # closeCall))
          => /\ closeCall'.position_id \in StoredIds
             /\ \A c \in closeLog : c.position_id # closeCall'.position_id]_vars

\* the close of a stored position returned with a failed leg, the position is
\* gone, the monitor is back at its wait, and one closing order went to each
\* venue
C39_Witness ==
  /\ monPc = "wait"
  /\ running
  /\ positions = <<>>
  /\ \E c \in closeLog, r \in openLog :
       /\ c.gate_exc \/ c.hl_exc
       /\ r.position_id = c.position_id
       /\ r.ret = "position"
       /\ OrdersSubmitted("gate", CompensationOp(r.gate.order),
                          r.position_id) = 1
       /\ OrdersSubmitted("hl", CompensationOp(r.hl.order),
                          r.position_id) = 1

\* ------------------------------------------------------- semaphore claims
\* C40: the single permit is out exactly while a handler is inside the
\* critical section; every step by which a handler leaves it (net spread
\* below the threshold, an exception of calculate_net_spread, a stored
\* position, failed legs followed by the balance refresh, whether the
\* refresh returned or raised) gives the permit back; and a handler waiting
\* for the permit eventually gets past the semaphore.
C40_PermitReleased ==
  /\ [](botPc \in {"entered", "running"} =>
          (_position_semaphore = 0 <=> InCriticalSection # {}))
  /\ [][\A s \in Symbols :
          (s \in InCriticalSection /\ s \notin InCriticalSection')
            => (_position_semaphore = 0 /\ _position_semaphore' = 1)]_vars
  /\ \A s \in Symbols : (handlerPc[s] = "sem") ~> (handlerPc[s] # "sem")

\* a handler waits for the permit while another is in the balance refresh
\* that follows a failed open
C40_Witness ==
  \E s \in Symbols, t \in Symbols :
    /\ handlerPc[s] = "sem"
    /\ handlerPc[t] \in {"refresh", "refresh compensated"}
    /\ _position_semaphore = 0


====
